---- MODULE Spec2Model ----
(***************************************************************************)
(* DocuChat-AI backend: the chunker (backend/utils/chunker.js, kept in     *)
(* src/backend/utils/textExtractor.js lines 207-337), the in-memory vector *)
(* store and development embedding service                                 *)
(* (src/backend/utils/freeEmbeddingService.js) and the processing / chat / *)
(* delete routes (src/backend/api/process.js).                             *)
(*                                                                         *)
(* Strings are sequences of one-character strings.  Three specifications   *)
(* share the variables:                                                    *)
(*   ChunkSpec  applies chunkText to bounded inputs,                       *)
(*   StoreSpec  drives InMemoryVectorStore through its public methods,     *)
(*   Spec       is the HTTP router with its background tasks.              *)
(***************************************************************************)
EXTENDS Integers, Sequences, FiniteSets, TLC

VARIABLES
  processedDocuments,  \* process.js:14  Map documentId -> Job
  documentChunks,      \* process.js:15  Map documentId -> chunk list
  vectors,             \* freeEmbeddingService.js:7  Map id -> record, in insertion order
  tasks,               \* started processDocumentInBackground invocations
  clock,               \* logical time read by new Date()
  call,                \* the request / method call handled last
  response             \* what that request / call returned

vars == <<processedDocuments, documentChunks, vectors, tasks, clock, call, response>>

(***************************************************************************)
(* Bounds of the model.                                                    *)
(***************************************************************************)
MaxTextLen == 6
MaxTokensBound == 3
MaxOverlapBound == 2
MaxBatch == 2
MaxTopK == 3

(***************************************************************************)
(* Strings.                                                                *)
(***************************************************************************)
Whitespace == {" ", "\n"}

Terminal == {".", "!", "?"}

MinOf(S) == CHOOSE x \in S : \A y \in S : x <= y

MaxOf(S) == CHOOSE x \in S : \A y \in S : x >= y

RECURSIVE SortedSeq(_)
SortedSeq(S) ==
  IF S = {} THEN <<>>
  ELSE LET m == MinOf(S) IN <<m>> \o SortedSeq(S \ {m})

\* String.prototype.trim
Trim(s) ==
  LET keep == {i \in 1..Len(s) : s[i] \notin Whitespace}
  IN IF keep = {} THEN <<>> ELSE SubSeq(s, MinOf(keep), MaxOf(keep))

\* Array.prototype.join(' ')
RECURSIVE JoinSpace(_)
JoinSpace(ss) ==
  IF Len(ss) = 0 THEN <<>>
  ELSE IF Len(ss) = 1 THEN ss[1]
  ELSE ss[1] \o <<" ">> \o JoinSpace(Tail(ss))

\* text.split(/\s+/).length : one more than the number of maximal
\* whitespace runs (leading and trailing runs yield empty strings that count)
SplitWsCount(s) ==
  1 + Cardinality({i \in 1..Len(s) :
                     s[i] \in Whitespace /\ (i = 1 \/ s[i-1] \notin Whitespace)})

(***************************************************************************)
(* chunker.js                                                              *)
(***************************************************************************)
\* text.split(/(?<=[.!?])\s+/): a separator is a maximal whitespace run that
\* directly follows a terminal mark.
SepStarts(text) ==
  {j \in 2..Len(text) : text[j] \in Whitespace /\ text[j-1] \in Terminal}

SepEnd(text, j) ==
  MinOf({k \in j..Len(text) : k = Len(text) \/ text[k+1] \notin Whitespace})

SplitPieces(text) ==
  LET starts == SortedSeq(SepStarts(text))
      n == Len(starts)
  IN [i \in 1..(n+1) |->
        LET from == IF i = 1 THEN 1 ELSE SepEnd(text, starts[i-1]) + 1
            to   == IF i = n + 1 THEN Len(text) ELSE starts[i] - 1
        IN SubSeq(text, from, to)]

NonBlank(sentence) == Len(Trim(sentence)) > 0

splitIntoSentences(text) == SelectSeq(SplitPieces(text), NonBlank)

\* Math.ceil(words * 0.75)
CeilThreeQuarters(words) == (3 * words + 3) \div 4

estimateTokens(text) == CeilThreeQuarters(SplitWsCount(text))

RECURSIVE OverlapWalk_testBeforeAdding(_, _, _, _, _)
OverlapWalk_testBeforeAdding(currentChunk, j, overlapSentences, overlapTokenCount, overlapTokens) ==
  IF j < 1 THEN [sentences |-> overlapSentences, tokens |-> overlapTokenCount]
  ELSE LET t == estimateTokens(currentChunk[j])
       IN IF overlapTokenCount <= overlapTokens
          THEN OverlapWalk_testBeforeAdding(currentChunk, j - 1,
                                            <<currentChunk[j]>> \o overlapSentences,
                                            overlapTokenCount + t, overlapTokens)
          ELSE [sentences |-> overlapSentences, tokens |-> overlapTokenCount]

\* lines 255-268: walk backward over the closed chunk, keeping whole
\* sentences while the running total stays within overlapTokens
RECURSIVE OverlapWalk(_, _, _, _, _)
OverlapWalk(currentChunk, j, overlapSentences, overlapTokenCount, overlapTokens) ==
  IF j < 1 THEN [sentences |-> overlapSentences, tokens |-> overlapTokenCount]
  ELSE LET t == estimateTokens(currentChunk[j])
       IN IF overlapTokenCount + t <= overlapTokens
          THEN OverlapWalk(currentChunk, j - 1, <<currentChunk[j]>> \o overlapSentences,
                           overlapTokenCount + t, overlapTokens)
          ELSE [sentences |-> overlapSentences, tokens |-> overlapTokenCount]

\* lines 245-250 / 283-288; `sentences` and `overlap` keep the array the
\* chunk was joined from and how many of its leading entries were carried
\* over from the chunk before it (they are not fields of the emitted object)
MakeChunk(currentChunk, currentTokens, index, overlap) ==
  [text |-> Trim(JoinSpace(currentChunk)),
   tokenCount |-> currentTokens,
   sentenceCount |-> Len(currentChunk),
   chunkIndex |-> index,
   sentences |-> currentChunk,
   overlap |-> overlap]

PushChunk_indexFromOne(chunks, currentChunk, currentTokens, overlap) ==
  LET c == MakeChunk(currentChunk, currentTokens, Len(chunks) + 1, overlap)
  IN IF Len(c.text) > 0 THEN Append(chunks, c) ELSE chunks

\* lines 242-251 and 281-289: chunkIndex is chunks.length at the push
PushChunk(chunks, currentChunk, currentTokens, overlap) ==
  LET c == MakeChunk(currentChunk, currentTokens, Len(chunks), overlap)
  IN IF Len(c.text) > 0 THEN Append(chunks, c) ELSE chunks

\* line 270
SeedChunk_overlapOnly(overlapSentences, sentence) == overlapSentences

SeedChunk(overlapSentences, sentence) == overlapSentences \o <<sentence>>

\* lines 235-277
RECURSIVE ChunkLoop(_, _, _, _, _, _, _, _)
ChunkLoop(sentences, i, chunks, currentChunk, currentTokens, overlap, maxTokens, overlapTokens) ==
  IF i > Len(sentences)
  THEN \* lines 280-290
       IF Len(currentChunk) > 0
       THEN PushChunk(chunks, currentChunk, currentTokens, overlap)
       ELSE chunks
  ELSE LET sentence == sentences[i]
           sentenceTokens == estimateTokens(sentence)
       IN IF currentTokens + sentenceTokens > maxTokens /\ Len(currentChunk) > 0
          THEN LET ov == OverlapWalk(currentChunk, Len(currentChunk), <<>>, 0, overlapTokens)
               IN ChunkLoop(sentences, i + 1,
                            PushChunk(chunks, currentChunk, currentTokens, overlap),
                            SeedChunk(ov.sentences, sentence),
                            ov.tokens + sentenceTokens,
                            Len(ov.sentences), maxTokens, overlapTokens)
          ELSE ChunkLoop(sentences, i + 1, chunks,
                         Append(currentChunk, sentence),
                         currentTokens + sentenceTokens,
                         overlap, maxTokens, overlapTokens)

ChunkTrace(text, maxTokens, overlapTokens) ==
  ChunkLoop(splitIntoSentences(text), 1, <<>>, <<>>, 0, 0, maxTokens, overlapTokens)

\* the objects chunkText returns
\* the chunks as the caller sees them
RECURSIVE PlainChunks(_)
PlainChunks(trace) ==
  IF Len(trace) = 0 THEN <<>>
  ELSE <<[text |-> trace[1].text, tokenCount |-> trace[1].tokenCount,
          sentenceCount |-> trace[1].sentenceCount, chunkIndex |-> trace[1].chunkIndex]>>
         \o PlainChunks(Tail(trace))

chunkText(text, maxTokens, overlapTokens) ==
  PlainChunks(ChunkTrace(text, maxTokens, overlapTokens))

\* assignment of fields to an object: fields of `fields` win
Assign(doc, fields) == fields @@ doc

\* lines 297-313
addMetadataToChunks(chunks, documentId, documentMetadata, now) ==
  [i \in 1..Len(chunks) |->
     [id |-> documentId \o "_chunk_" \o ToString(i - 1),
      documentId |-> documentId,
      text |-> chunks[i].text,
      tokenCount |-> chunks[i].tokenCount,
      sentenceCount |-> chunks[i].sentenceCount,
      chunkIndex |-> chunks[i].chunkIndex,
      metadata |-> Assign(documentMetadata,
                          [chunkIndex |-> i - 1,
                           totalChunks |-> Len(chunks),
                           isFirstChunk |-> (i - 1 = 0),
                           isLastChunk |-> (i - 1 = Len(chunks) - 1)]),
      createdAt |-> now]]

(***************************************************************************)
(* freeEmbeddingService.js: InMemoryVectorStore                            *)
(*                                                                         *)
(* A vector (JS array of numbers) is [length, nz]: its length and its      *)
(* non-zero entries by 0-based index.  A similarity score is [num, den],   *)
(* standing for num / sqrt(den) with den > 0; scores are compared exactly  *)
(* by cross-multiplication (floating-point rounding is not modelled).      *)
(* The Map `vectors` is the sequence of its values in iteration order.     *)
(***************************************************************************)
RECURSIVE SumOver(_, _)
SumOver(f, S) ==
  IF S = {} THEN 0
  ELSE LET x == CHOOSE x \in S : TRUE IN f[x] + SumOver(f, S \ {x})

Dot(a, b) ==
  LET common == DOMAIN a.nz \cap DOMAIN b.nz
  IN SumOver([i \in common |-> a.nz[i] * b.nz[i]], common)

NormSq(a) == SumOver([i \in DOMAIN a.nz |-> a.nz[i] * a.nz[i]], DOMAIN a.nz)

ZeroScore == [num |-> 0, den |-> 1]

cosineSimilarity_unguarded(a, b) ==
  IF a.length # b.length THEN ZeroScore
  ELSE [num |-> Dot(a, b), den |-> NormSq(a) * NormSq(b)]

\* lines 84-99
cosineSimilarity(a, b) ==
  IF a.length # b.length THEN ZeroScore
  ELSE LET dotProduct == Dot(a, b)
           magnitudeSq == NormSq(a) * NormSq(b)
       IN IF magnitudeSq > 0 THEN [num |-> dotProduct, den |-> magnitudeSq]
          ELSE ZeroScore

\* x >= y for scores
ScoreGE(x, y) ==
  IF x.num >= 0 /\ y.num < 0 THEN TRUE
  ELSE IF x.num < 0 /\ y.num >= 0 THEN FALSE
  ELSE IF x.num >= 0 THEN x.num * x.num * y.den >= y.num * y.num * x.den
  ELSE x.num * x.num * y.den <= y.num * y.num * x.den

ScoreGT(x, y) == ~ScoreGE(y, x)

ScoreEQ(x, y) == ScoreGE(x, y) /\ ScoreGE(y, x)

HasKey(obj, k) == k \in DOMAIN obj

EmptyObject == <<>>

\* lines 56-62 and 117-122: every key of the filter must be strictly equal
MatchesFilter_anyKey(metadata, filter) ==
  \/ DOMAIN filter = {}
  \/ \E k \in DOMAIN filter : HasKey(metadata, k) /\ metadata[k] = filter[k]

MatchesFilter(metadata, filter) ==
  \A k \in DOMAIN filter : HasKey(metadata, k) /\ metadata[k] = filter[k]

IndexOfId(store, id) ==
  IF \E i \in 1..Len(store) : store[i].id = id
  THEN CHOOSE i \in 1..Len(store) : store[i].id = id
  ELSE 0

MapSet_keepExisting(store, rec) ==
  LET i == IndexOfId(store, rec.id)
  IN IF i = 0 THEN Append(store, rec) ELSE store

\* Map.prototype.set: an existing key keeps its place, a new key goes last
MapSet(store, rec) ==
  LET i == IndexOfId(store, rec.id)
  IN IF i = 0 THEN Append(store, rec) ELSE [store EXCEPT ![i] = rec]

StoredRecord(embedding) ==
  [id |-> embedding.id, values |-> embedding.values, metadata |-> embedding.metadata]

\* lines 34-40
RECURSIVE UpsertAll(_, _)
UpsertAll(store, embeddings) ==
  IF Len(embeddings) = 0 THEN store
  ELSE UpsertAll(MapSet(store, StoredRecord(embeddings[1])), Tail(embeddings))

\* lines 33-46
upsert(store, embeddings) ==
  [store |-> UpsertAll(store, embeddings),
   result |-> [success |-> TRUE, storedCount |-> Len(embeddings)]]

\* Array.prototype.sort with (a, b) => b.score - a.score is stable: an
\* element goes before the first one with a strictly smaller score
RECURSIVE InsertByScore(_, _)
InsertByScore(sorted, r) ==
  IF Len(sorted) = 0 THEN <<r>>
  ELSE IF ScoreGT(r.score, sorted[1].score) THEN <<r>> \o sorted
  ELSE <<sorted[1]>> \o InsertByScore(Tail(sorted), r)

RECURSIVE SortByScore(_, _)
SortByScore(results, acc) ==
  IF Len(results) = 0 THEN acc
  ELSE SortByScore(Tail(results), InsertByScore(acc, results[1]))

\* Array.prototype.slice(0, n) for n >= 0
SliceTo(s, n) == SubSeq(s, 1, IF n < Len(s) THEN n ELSE Len(s))

DefaultTopK == 5

\* lines 49-81
query(store, options) ==
  LET topK == IF HasKey(options, "topK") THEN options.topK ELSE DefaultTopK
      includeMetadata == IF HasKey(options, "includeMetadata")
                         THEN options.includeMetadata ELSE TRUE
      filter == IF HasKey(options, "filter") THEN options.filter ELSE EmptyObject
      Passes(storedVector) == MatchesFilter(storedVector.metadata, filter)
      passing == SelectSeq(store, Passes)
      results == [i \in 1..Len(passing) |->
                    IF includeMetadata
                    THEN [id |-> passing[i].id,
                          score |-> cosineSimilarity(options.vector, passing[i].values),
                          metadata |-> passing[i].metadata]
                    ELSE \* metadata: undefined
                         [id |-> passing[i].id,
                          score |-> cosineSimilarity(options.vector, passing[i].values)]]
  IN [matches |-> SliceTo(SortByScore(results, <<>>), topK)]

\* line 117: filter.filter || {}
DeleteFilter_topLevel(arg) == arg

DeleteFilter(arg) == IF HasKey(arg, "filter") THEN arg.filter ELSE EmptyObject

\* lines 111-131
deleteMany(store, arg) ==
  LET ShouldKeep(vector) == ~MatchesFilter(vector.metadata, DeleteFilter(arg))
      kept == SelectSeq(store, ShouldKeep)
  IN [store |-> kept, result |-> [deletedCount |-> Len(store) - Len(kept)]]

\* lines 102-108
describeIndexStats(store) ==
  [totalVectorCount |-> Len(store), dimension |-> 1536, indexFullness |-> 0]

(***************************************************************************)
(* freeEmbeddingService.js: textToVector and DevelopmentEmbeddingService   *)
(*                                                                         *)
(* Math.sin(x) * 0.1 is kept to two decimals: an increment is the integer  *)
(* round(10 * sin(x)), i.e. the code's increment times 100.  The final     *)
(* division by the magnitude (line 29) only rescales a non-zero vector,    *)
(* which cosineSimilarity cancels, so `values` holds the accumulated       *)
(* integers; an all-zero accumulator is returned as it is in both.         *)
(***************************************************************************)
SinTable ==
  <<
    0, 8, 9, 1, -8, -10, -3, 7, 10, 4, -5, -10, -5, 4, 10, 7, -3, -10, -8, 1,
    9, 8, 0, -8, -9, -1, 8, 10, 3, -7, -10, -4, 6, 10, 5, -4, -10, -6, 3, 10,
    7, -2, -9, -8, 0, 9, 9, 1, -8, -10, -3, 7, 10, 4, -6, -10, -5, 4, 10, 6,
    -3, -10, -7, 2, 9, 8, 0, -9, -9, -1, 8, 10, 3, -7, -10, -4, 6, 10, 5, -4,
    -10, -6, 3, 10, 7, -2, -9, -8, 0, 9, 9, 1, -8, -9, -2, 7, 10, 4, -6, -10,
    -5, 5, 10, 6, -3, -10, -7, 2, 9, 8, 0, -9, -9, -1, 8, 9, 2, -7, -10, -4,
    6, 10, 5, -5, -10, -6, 3, 10, 7, -2, -9, -8, 1, 9, 9, 1, -8, -9, -2, 7,
    10, 4, -6, -10, -5, 5, 10, 6, -3, -10, -7, 2, 9, 8, -1, -9, -9, -1, 8, 9,
    2, -7, -10, -4, 6, 10, 5, -5, -10, -6, 3, 10, 7, -2, -9, -8, 1, 9, 9, 1,
    -8, -9, -2, 7, 10, 3, -6, -10, -5, 5, 10, 6, -4, -10, -7, 2, 9, 8, -1, -9,
    -9, -1, 8, 9, 2, -7, -10, -3, 6, 10, 5, -5, -10, -6, 4, 10, 7, -2, -9, -8,
    1, 9, 9, 1, -8, -9, -2, 7, 10, 3, -6, -10, -5, 5, 10, 6, -4, -10, -7, 2,
    9, 8, -1, -9, -9, 0, 8, 9, 2, -7, -10, -3, 6, 10, 5, -5, -10, -6, 4, 10,
    7, -2, -9, -8, 1, 9, 9, 0, -8, -9, -2, 7, 10, 3, -6, -10, -4, 5, 10, 6,
    -4, -10, -7, 3, 10, 8, -1, -9, -9, 0, 8, 9, 2, -7, -10, -3, 6, 10, 4, -5,
    -10, -6, 4, 10, 7, -3, -10, -8, 1, 9, 9, 0, -8, -9, -2, 7, 10, 3, -6, -10,
    -4, 5, 10, 6, -4, -10, -7, 3, 10, 8, -1, -9, -8, 0, 8, 9, 1, -8, -10, -3,
    7, 10, 4, -5, -10, -5, 4, 10, 7, -3, -10, -8, 1, 9, 8, 0, -8, -9, -1, 8,
    10, 3, -7, -10, -4, 5, 10, 5, -4, -10, -7, 3, 10, 8, -1, -9, -8, 0, 8, 9,
    1, -8, -10, -3, 7, 10, 4, -6, -10, -5, 4, 10, 6, -3, -10, -7, 2, 9, 8, 0,
    -9, -9, -1, 8, 10, 3, -7, -10, -4, 6, 10, 5, -4, -10, -6, 3, 10, 7, -2, -9,
    -8, 0, 9, 9, 1, -8, -10, -3, 7, 10, 4, -6, -10, -5, 4, 10, 6, -3, -10, -7,
    2, 9, 8, 0, -9, -9, -1, 8, 9, 2, -7, -10, -4, 6, 10, 5, -5, -10, -6, 3,
    10, 7, -2, -9, -8, 0, 9, 9, 1, -8, -9, -2, 7, 10, 4, -6, -10, -5, 5, 10,
    6, -3, -10, -7, 2, 9, 8, -1, -9, -9, -1, 8, 9, 2, -7, -10, -4, 6, 10, 5
  >>

SinQ(n) == SinTable[n + 1]

\* String.prototype.charCodeAt for the characters used
CharCode(c) ==
  CASE c = " " -> 32 [] c = "\n" -> 10 [] c = "." -> 46 [] c = "!" -> 33 [] c = "?" -> 63
    [] c = "a" -> 97 [] c = "b" -> 98 [] c = "c" -> 99 [] c = "z" -> 122

UpperCase ==
  <<"A", "B", "C", "D", "E", "F", "G", "H", "I", "J", "K", "L", "M",
    "N", "O", "P", "Q", "R", "S", "T", "U", "V", "W", "X", "Y", "Z">>

LowerCase ==
  <<"a", "b", "c", "d", "e", "f", "g", "h", "i", "j", "k", "l", "m",
    "n", "o", "p", "q", "r", "s", "t", "u", "v", "w", "x", "y", "z">>

\* String.prototype.toLowerCase, character by character
ToLowerChar(c) ==
  IF \E i \in 1..Len(UpperCase) : UpperCase[i] = c
  THEN LowerCase[CHOOSE i \in 1..Len(UpperCase) : UpperCase[i] = c]
  ELSE c

Dimensions == 1536

\* text.split(/\s+/): index of the word holding position p (a leading
\* whitespace run makes word 0 the empty string) and where that word starts
WordIndexAt(s, p) ==
  Cardinality({j \in 1..(p - 1) :
                 s[j] \in Whitespace /\ (j = 1 \/ s[j-1] \notin Whitespace)})

WordStartAt(s, p) ==
  MaxOf({j \in 1..p : j = 1 \/ s[j-1] \in Whitespace})

\* line 20, for the character at position p (-1 at whitespace)
VectorIndexAt(s, p) ==
  IF s[p] \in Whitespace THEN -1
  ELSE (CharCode(ToLowerChar(s[p])) + WordIndexAt(s, p) * (p - WordStartAt(s, p))) % Dimensions

\* line 21, the increment the character at position p adds
IncrementAt(s, p) ==
  IF s[p] \in Whitespace THEN 0
  ELSE SinQ(CharCode(ToLowerChar(s[p])) + WordIndexAt(s, p))

\* the sum of increments[p] over the positions lo..hi whose vectorIndex is k
RECURSIVE SumAt(_, _, _, _, _)
SumAt(increments, vectorIndexes, k, lo, hi) ==
  IF lo > hi THEN 0
  ELSE IF lo = hi THEN (IF vectorIndexes[lo] = k THEN increments[lo] ELSE 0)
  ELSE LET mid == (lo + hi) \div 2
       IN SumAt(increments, vectorIndexes, k, lo, mid)
            + SumAt(increments, vectorIndexes, k, mid + 1, hi)

\* the non-zero entries among vector[keys[lo]] .. vector[keys[hi]]
RECURSIVE NonZeroEntries(_, _, _, _)
NonZeroEntries(total, keys, lo, hi) ==
  IF lo > hi THEN <<>>
  ELSE IF lo = hi THEN (IF total[lo] = 0 THEN <<>> ELSE keys[lo] :> total[lo])
  ELSE LET mid == (lo + hi) \div 2
       IN NonZeroEntries(total, keys, lo, mid) @@ NonZeroEntries(total, keys, mid + 1, hi)

\* lines 12-30
textToVector(text) ==
  LET n == Len(text)
      vectorIndexes == SubSeq([p \in 1..n |-> VectorIndexAt(text, p)], 1, n)
      increments == SubSeq([p \in 1..n |-> IncrementAt(text, p)], 1, n)
      keys == SortedSeq({vectorIndexes[p] : p \in 1..n} \ {-1})
      total == SubSeq([j \in 1..Len(keys) |-> SumAt(increments, vectorIndexes, keys[j], 1, n)],
                      1, Len(keys))
  IN [length |-> Dimensions, nz |-> NonZeroEntries(total, keys, 1, Len(keys))]

\* lines 146-160; line 155: text.split(/\s+/).length
generateEmbedding(text) ==
  [embedding |-> textToVector(text),
   usage |-> [total_tokens |-> SplitWsCount(text)],
   model |-> "development-hash",
   text |-> text]

(***************************************************************************)
(* The texts the extraction collaborator returns and the questions asked   *)
(* in the model, with chunkText and generateEmbedding tabulated on them.   *)
(***************************************************************************)
\* a sentence of n one-letter words
Sentence(c, n) ==
  SubSeq([i \in 1..(2 * n) |-> IF i = 2 * n THEN "." ELSE IF i % 2 = 1 THEN c ELSE " "],
         1, 2 * n)

ShortText == Sentence("a", 1)

\* two sentences of 264 and 138 estimated tokens: two chunks
LongText == Sentence("a", 352) \o <<" ">> \o Sentence("b", 183)

ExtractedTexts == {ShortText, LongText}

Questions == {<<"a">>, <<"z">>}

\* a question near both chunks of LongText: its similarity is between 0.05
\* and 0.15 with each of them
MixedQuestion == <<"a", " ", "b", " ", "b", " ", "b", " ", "a", " ", "a", " ", "a">>

ChunkMaxTokens == 400

ChunkOverlapTokens == 50

\* process.js line 459: chunkText(extractionResult.text, 400, 50)
RECURSIVE TabulateChunkText(_)
TabulateChunkText(texts) ==
  IF texts = {} THEN <<>>
  ELSE LET text == CHOOSE t \in texts : TRUE
       IN (text :> chunkText(text, ChunkMaxTokens, ChunkOverlapTokens))
            @@ TabulateChunkText(texts \ {text})

ChunkTable == TabulateChunkText(ExtractedTexts)

ChunkTexts ==
  UNION {{ChunkTable[text][i].text : i \in 1..Len(ChunkTable[text])} : text \in ExtractedTexts}

RECURSIVE TabulateEmbedding(_)
TabulateEmbedding(texts) ==
  IF texts = {} THEN <<>>
  ELSE LET text == CHOOSE t \in texts : TRUE
       IN (text :> generateEmbedding(text)) @@ TabulateEmbedding(texts \ {text})

EmbeddingTable == TabulateEmbedding(ChunkTexts \cup Questions \cup {MixedQuestion})

\* generateEmbedding, looked up in the table where it is tabulated
EmbeddingOf(text) ==
  IF text \in DOMAIN EmbeddingTable THEN EmbeddingTable[text] ELSE generateEmbedding(text)

\* String.prototype.substring(0, n)
Substring(s, n) == SubSeq(s, 1, IF n < Len(s) THEN n ELSE Len(s))

MetadataTextLimit == 1000

\* lines 180-194; wordCount: chunk.wordCount is undefined (chunks carry no wordCount)
EmbeddingOfChunk(chunk) ==
  [id |-> chunk.id,
   values |-> EmbeddingOf(chunk.text).embedding,
   metadata |-> [text |-> Substring(chunk.text, MetadataTextLimit),
                 documentId |-> chunk.documentId,
                 fileName |-> chunk.metadata.fileName,
                 fileType |-> chunk.metadata.fileType,
                 chunkIndex |-> chunk.chunkIndex,
                 totalChunks |-> chunk.metadata.totalChunks,
                 tokenCount |-> chunk.tokenCount,
                 createdAt |-> chunk.createdAt]]

\* lines 162-207
generateEmbeddingsForChunks(chunks) ==
  LET tokens == [i \in 1..Len(chunks) |-> EmbeddingOf(chunks[i].text).usage.total_tokens]
  IN [embeddings |-> [i \in 1..Len(chunks) |-> EmbeddingOfChunk(chunks[i])],
      totalTokens |-> SumOver(tokens, 1..Len(chunks)),
      successCount |-> Len(chunks),
      failureCount |-> 0]

storeEmbeddings_skipped(store, embeddings) ==
  [store |-> store, result |-> [success |-> TRUE, storedCount |-> Len(embeddings)]]

\* lines 209-219
storeEmbeddings(store, embeddings) == upsert(store, embeddings)

\* thresholds as scores: 0.5 = 1/sqrt(4), 0.15 = 3/sqrt(400), 0.05 = 1/sqrt(400)
DefaultThreshold == [num |-> 1, den |-> 4]

\* line 228: options.topK || 5
SearchTopK(options) ==
  IF HasKey(options, "topK") /\ options.topK # 0 THEN options.topK ELSE DefaultTopK

\* line 230: options.documentId ? { documentId } : {}
SearchFilter(options) ==
  IF HasKey(options, "documentId") /\ options.documentId # ""
  THEN [documentId |-> options.documentId]
  ELSE EmptyObject

\* line 234: options.threshold || 0.5
SearchThreshold(options) ==
  IF HasKey(options, "threshold") /\ options.threshold.num # 0
  THEN options.threshold
  ELSE DefaultThreshold

\* lines 221-248
searchSimilarChunks(store, queryText, options) ==
  LET queryEmbedding == EmbeddingOf(queryText)
      searchResults == query(store, [vector |-> queryEmbedding.embedding,
                                     topK |-> SearchTopK(options),
                                     includeMetadata |-> TRUE,
                                     filter |-> SearchFilter(options)])
      AboveThreshold(match) == ScoreGE(match.score, SearchThreshold(options))
      filteredResults == SelectSeq(searchResults.matches, AboveThreshold)
  IN [query |-> queryText,
      results |-> filteredResults,
      totalFound |-> Len(searchResults.matches),
      aboveThreshold |-> Len(filteredResults),
      queryTokens |-> queryEmbedding.usage.total_tokens]

deleteDocumentEmbeddings_statsOnly(store, documentId) ==
  [store |-> store,
   result |-> [success |-> TRUE, deletedCount |-> 0, documentId |-> documentId,
               statsBefore |-> describeIndexStats(store),
               statsAfter |-> describeIndexStats(store)]]

\* lines 257-304: the store's deleteMany cannot raise, so neither does this
deleteDocumentEmbeddings(store, documentId) ==
  LET statsBefore == describeIndexStats(store)
      deleted == deleteMany(store, [filter |-> [documentId |-> documentId]])
  IN [store |-> deleted.store,
      result |-> [success |-> TRUE,
                  deletedCount |-> deleted.result.deletedCount,
                  documentId |-> documentId,
                  statsBefore |-> statsBefore,
                  statsAfter |-> describeIndexStats(deleted.store)]]

(***************************************************************************)
(* ChunkSpec: chunkText applied to every text over a small alphabet.       *)
(***************************************************************************)
Alphabet == {"a", ".", " "}

RECURSIVE StringsUpTo(_)
StringsUpTo(n) ==
  IF n = 0 THEN {<<>>}
  ELSE LET shorter == StringsUpTo(n - 1)
       IN shorter \cup {Append(s, c) : s \in {x \in shorter : Len(x) = n - 1}, c \in Alphabet}

NoResponse == [op |-> "none"]

NoCall == [op |-> "none"]

EmptyVectors == <<>>

AppInit ==
  /\ processedDocuments = <<>>
  /\ documentChunks = <<>>
  /\ vectors = EmptyVectors
  /\ tasks = {}
  /\ clock = 0

ChunkInit ==
  /\ AppInit
  /\ call \in [op : {"chunkText"}, text : StringsUpTo(MaxTextLen),
               maxTokens : 1..MaxTokensBound, overlapTokens : 0..MaxOverlapBound]
  /\ response = NoResponse

\* chunkText followed by addMetadataToChunks, as process.js lines 459-470 do
\* (lines 465-469: fileName, fileType and the extraction metadata)
ChunkCall ==
  /\ call.op = "chunkText"
  /\ response = NoResponse
  /\ response' = [op |-> "chunkText",
                  chunks |-> ChunkTrace(call.text, call.maxTokens, call.overlapTokens),
                  chunksWithMetadata |->
                    addMetadataToChunks(chunkText(call.text, call.maxTokens, call.overlapTokens),
                                        "d1", [fileName |-> "a.txt", fileType |-> "text/plain"], 0)]
  /\ UNCHANGED <<processedDocuments, documentChunks, vectors, tasks, clock, call>>

ChunkNext == ChunkCall

ChunkSpec == ChunkInit /\ [][ChunkNext]_vars

\* the sentences of a chunk that were not carried over from the chunk before it
FreshSentences(c) == SubSeq(c.sentences, c.overlap + 1, Len(c.sentences))

RECURSIVE ConcatFresh(_)
ConcatFresh(cs) ==
  IF Len(cs) = 0 THEN <<>> ELSE FreshSentences(cs[1]) \o ConcatFresh(Tail(cs))

TrimAll(ss) == [i \in 1..Len(ss) |-> Trim(ss[i])]

\* C10: chunk coverage -- dropping from every chunk the leading sentences
\* carried over from the previous chunk, the remaining sentences, chunk
\* after chunk, are the input's sentence sequence, each once and in order;
\* the carried-over sentences really are the tail of the previous chunk and
\* every chunk's text splits back into exactly the sentences it was built from.
C10_ChunkCoverage ==
  response.op = "chunkText" =>
    LET cs == response.chunks
    IN /\ ConcatFresh(cs) = splitIntoSentences(call.text)
       /\ \A i \in 1..Len(cs) :
            /\ cs[i].overlap < Len(cs[i].sentences)
            /\ i = 1 => cs[i].overlap = 0
            /\ i > 1 => /\ cs[i].overlap <= Len(cs[i-1].sentences)
                        /\ SubSeq(cs[i].sentences, 1, cs[i].overlap)
                             = SubSeq(cs[i-1].sentences,
                                      Len(cs[i-1].sentences) - cs[i].overlap + 1,
                                      Len(cs[i-1].sentences))
            /\ splitIntoSentences(cs[i].text) = TrimAll(cs[i].sentences)

C10_Witness ==
  /\ response.op = "chunkText"
  /\ Len(response.chunks) >= 3
  /\ \E i \in 1..Len(response.chunks) : response.chunks[i].overlap > 0

\* C11: chunk indexing -- the n chunks of a chunking result carry the
\* indices 0..n-1 in order, as chunkIndex and as metadata.chunkIndex; every
\* chunk's metadata.totalChunks is n; isFirstChunk is true exactly on index 0
\* and isLastChunk exactly on index n-1.
C11_ChunkIndexing ==
  response.op = "chunkText" =>
    LET cs == response.chunksWithMetadata
        n == Len(cs)
    IN /\ n = Len(response.chunks)
       /\ \A i \in 1..n :
            /\ cs[i].chunkIndex = i - 1
            /\ cs[i].metadata.chunkIndex = i - 1
            /\ cs[i].metadata.totalChunks = n
            /\ cs[i].metadata.isFirstChunk <=> (i = 1)
            /\ cs[i].metadata.isLastChunk <=> (i = n)
            /\ cs[i].text = response.chunks[i].text

C11_Witness ==
  /\ response.op = "chunkText"
  /\ Len(response.chunksWithMetadata) = 3
  /\ response.chunksWithMetadata[3].metadata.isLastChunk
  /\ ~response.chunksWithMetadata[2].metadata.isLastChunk
  /\ ~response.chunksWithMetadata[2].metadata.isFirstChunk

TokensOf(sentences) ==
  SumOver([j \in 1..Len(sentences) |-> estimateTokens(sentences[j])], 1..Len(sentences))

\* the sentences a chunk took over from the chunk before it
CopiedSentences(c) == SubSeq(c.sentences, 1, c.overlap)

\* C12: overlap bound -- for two consecutive chunks, the sentences copied
\* from the earlier into the later one have estimated token counts summing to
\* at most overlapTokens, and they are the last sentences of the earlier
\* chunk, contiguous and in their original order.
C12_OverlapBound ==
  response.op = "chunkText" =>
    LET cs == response.chunks
    IN \A i \in 2..Len(cs) :
         LET copied == CopiedSentences(cs[i])
             earlier == cs[i-1].sentences
         IN /\ TokensOf(copied) <= call.overlapTokens
            /\ Len(copied) <= Len(earlier)
            /\ \A j \in 1..Len(copied) :
                 copied[j] = earlier[Len(earlier) - Len(copied) + j]

C12_Witness ==
  /\ response.op = "chunkText"
  /\ \E i \in 2..Len(response.chunks) :
       /\ response.chunks[i].overlap = 1
       /\ TokensOf(CopiedSentences(response.chunks[i])) = call.overlapTokens
       /\ Len(response.chunks[i-1].sentences) = 2

\* the positions, in the input's sentence sequence, of the sentences chunk i holds
FreshCount(c) == Len(c.sentences) - c.overlap

LastPosition(cs, i) == SumOver([j \in 1..i |-> FreshCount(cs[j])], 1..i)

PositionsOf(cs, i) == (LastPosition(cs, i) - Len(cs[i].sentences) + 1)..LastPosition(cs, i)

ChunksHolding(cs, k) == {i \in 1..Len(cs) : k \in PositionsOf(cs, i)}

\* C13: oversized sentence policy -- a sentence of the input whose estimated
\* token count exceeds maxTokens is held, whole, by exactly one chunk.
C13_OversizedSentenceOnce ==
  response.op = "chunkText" =>
    LET cs == response.chunks
        sentences == splitIntoSentences(call.text)
    IN \A k \in 1..Len(sentences) :
         estimateTokens(sentences[k]) > call.maxTokens =>
           /\ Cardinality(ChunksHolding(cs, k)) = 1
           /\ \A i \in ChunksHolding(cs, k) :
                cs[i].sentences[k - LastPosition(cs, i) + Len(cs[i].sentences)] = sentences[k]

(***************************************************************************)
(* StoreSpec: InMemoryVectorStore driven through upsert, query and         *)
(* deleteMany with sample records.                                         *)
(***************************************************************************)
Vec(length, nz) == [length |-> length, nz |-> nz]

SampleVectors ==
  [va    |-> Vec(2, (0 :> 1)),
   vb    |-> Vec(2, (1 :> 1)),
   vab   |-> Vec(2, (0 :> 1) @@ (1 :> 1)),
   vneg  |-> Vec(2, (0 :> -1)),
   vzero |-> Vec(2, <<>>)]

SampleMeta(documentId, fileName) == [documentId |-> documentId, fileName |-> fileName]

SampleRecords ==
  { [id |-> "k1", values |-> SampleVectors.va,    metadata |-> SampleMeta("d1", "f1")],
    [id |-> "k1", values |-> SampleVectors.vneg,  metadata |-> SampleMeta("d2", "f2")],
    [id |-> "k2", values |-> SampleVectors.va,    metadata |-> SampleMeta("d1", "f1")],
    [id |-> "k3", values |-> SampleVectors.vab,   metadata |-> SampleMeta("d2", "f1")],
    [id |-> "k3", values |-> SampleVectors.vzero, metadata |-> SampleMeta("d1", "f2")] }

RECURSIVE SeqsUpTo(_, _)
SeqsUpTo(S, n) ==
  IF n = 0 THEN {<<>>}
  ELSE LET shorter == SeqsUpTo(S, n - 1)
       IN shorter \cup {Append(q, x) : q \in {y \in shorter : Len(y) = n - 1}, x \in S}

SampleBatches == SeqsUpTo(SampleRecords, MaxBatch)

SampleFilters ==
  { EmptyObject,
    [documentId |-> "d1"],
    [fileName |-> "f2"],
    [documentId |-> "d1", fileName |-> "f1"] }

SampleQueries ==
  [vector : {SampleVectors.va, SampleVectors.vab, SampleVectors.vzero},
   topK : 0..MaxTopK, filter : SampleFilters, includeMetadata : BOOLEAN]

SampleDeletes == {[filter |-> f] : f \in SampleFilters} \cup {[deleteAll |-> TRUE]}

StoreInit ==
  /\ AppInit
  /\ call = NoCall
  /\ response = NoResponse

StoreUpsert(embeddings) ==
  LET r == upsert(vectors, embeddings)
  IN /\ vectors' = r.store
     /\ call' = [op |-> "upsert", embeddings |-> embeddings]
     /\ response' = [op |-> "upsert", result |-> r.result]
     /\ UNCHANGED <<processedDocuments, documentChunks, tasks, clock>>

StoreQuery(options) ==
  /\ call' = [op |-> "query", options |-> options]
  /\ response' = [op |-> "query", result |-> query(vectors, options)]
  /\ UNCHANGED <<processedDocuments, documentChunks, vectors, tasks, clock>>

StoreDeleteMany(arg) ==
  LET r == deleteMany(vectors, arg)
  IN /\ vectors' = r.store
     /\ call' = [op |-> "deleteMany", arg |-> arg]
     /\ response' = [op |-> "deleteMany", result |-> r.result]
     /\ UNCHANGED <<processedDocuments, documentChunks, tasks, clock>>

StoreNext ==
  \/ \E embeddings \in SampleBatches : StoreUpsert(embeddings)
  \/ \E options \in SampleQueries : StoreQuery(options)
  \/ \E arg \in SampleDeletes : StoreDeleteMany(arg)

StoreSpec == StoreInit /\ [][StoreNext]_vars

Ids(store) == {store[i].id : i \in 1..Len(store)}

RecordSet(store) == {store[i] : i \in 1..Len(store)}

UniqueIds(store) == \A i, j \in 1..Len(store) : store[i].id = store[j].id => i = j

\* C7: the matches of a query are exactly the stored records whose metadata
\* equals the filter on every filter key, each with its cosine score, ordered
\* by score descending with equal scores in the store's insertion order, and
\* cut to the best topK of them.
C7_QueryResult ==
  call.op = "query" =>
    LET o == call.options
        M == response.result.matches
        passing == {i \in 1..Len(vectors) :
                      \A k \in DOMAIN o.filter :
                        /\ k \in DOMAIN vectors[i].metadata
                        /\ vectors[i].metadata[k] = o.filter[k]}
        Pos(m) == IndexOfId(vectors, m.id)
        Score(i) == cosineSimilarity(o.vector, vectors[i].values)
        Before(i, j) == \/ ScoreGT(Score(i), Score(j))
                        \/ ScoreEQ(Score(i), Score(j)) /\ i < j
    IN /\ \A n \in 1..Len(M) :
            /\ Pos(M[n]) \in passing
            /\ M[n].score = Score(Pos(M[n]))
            /\ o.includeMetadata => M[n].metadata = vectors[Pos(M[n])].metadata
       /\ \A n, m \in 1..Len(M) : n < m => Before(Pos(M[n]), Pos(M[m]))
       /\ Len(M) = IF o.topK < Cardinality(passing) THEN o.topK ELSE Cardinality(passing)
       /\ \A i \in passing :
            (\A n \in 1..Len(M) : Pos(M[n]) # i) =>
               \A n \in 1..Len(M) : Before(Pos(M[n]), i)

C7_Witness ==
  /\ call.op = "query"
  /\ Len(vectors) = 3
  /\ Len(response.result.matches) = 2
  /\ DOMAIN call.options.filter = {"documentId", "fileName"}
  /\ ScoreEQ(response.result.matches[1].score, response.result.matches[2].score)

LastWithId(embeddings, id) ==
  embeddings[MaxOf({i \in 1..Len(embeddings) : embeddings[i].id = id})]

\* C8: after upsert every id of the batch maps to the record given for it
\* (the last one if the batch names the id twice), records with other ids are
\* unchanged, no id is held twice, and the returned count is the number of
\* records the call stored (one per batch entry; with distinct ids that is
\* the number of stored records carrying a batch id).
C8_Upsert ==
  [][(call'.op = "upsert" /\ StoreUpsert(call'.embeddings)) =>
         LET embeddings == call'.embeddings
             batchIds == {embeddings[i].id : i \in 1..Len(embeddings)}
         IN /\ \A id \in batchIds :
                 \E i \in 1..Len(vectors') :
                   /\ vectors'[i].id = id
                   /\ vectors'[i].values = LastWithId(embeddings, id).values
                   /\ vectors'[i].metadata = LastWithId(embeddings, id).metadata
            /\ \A r \in RecordSet(vectors) : r.id \notin batchIds => r \in RecordSet(vectors')
            /\ \A r \in RecordSet(vectors') : r.id \notin batchIds => r \in RecordSet(vectors)
            /\ UniqueIds(vectors')
            /\ response'.result.storedCount = Len(embeddings)
            /\ Cardinality(batchIds) = Len(embeddings) =>
                 response'.result.storedCount
                   = Cardinality({i \in 1..Len(vectors') : vectors'[i].id \in batchIds})]_vars

C8_Witness ==
  /\ call.op = "upsert"
  /\ Len(call.embeddings) = 2
  /\ Len(vectors) = 3
  /\ \E i \in 1..Len(vectors) :
       /\ vectors[i].id = "k1"
       /\ vectors[i].metadata.documentId = "d2"
       /\ i < Len(vectors)

\* C9: a filtered deleteMany removes exactly the records whose metadata
\* matches every key/value of the filter, in place, and returns how many it
\* removed; a record that fails the filter on some key is removed only by the
\* explicit delete-all request, which empties the store.
C9_DeleteMany ==
  [][(call'.op = "deleteMany" /\ StoreDeleteMany(call'.arg)) =>
         LET arg == call'.arg
             Hit(r) == \A k \in DOMAIN arg.filter :
                          k \in DOMAIN r.metadata /\ r.metadata[k] = arg.filter[k]
         IN /\ response'.result.deletedCount = Len(vectors) - Len(vectors')
            /\ "filter" \in DOMAIN arg =>
                 /\ \A i \in 1..Len(vectors) :
                      Hit(vectors[i]) <=> vectors[i] \notin RecordSet(vectors')
                 /\ \A i, j \in 1..Len(vectors') :
                      i < j => IndexOfId(vectors, vectors'[i].id) < IndexOfId(vectors, vectors'[j].id)
                 /\ RecordSet(vectors') \subseteq RecordSet(vectors)
            /\ "filter" \notin DOMAIN arg => arg.deleteAll /\ vectors' = <<>>]_vars

C9_Witness ==
  /\ call.op = "deleteMany"
  /\ "filter" \in DOMAIN call.arg
  /\ DOMAIN call.arg.filter = {"documentId", "fileName"}
  /\ response.result.deletedCount = 2
  /\ Len(vectors) = 1

IsZeroVector(v) == \A k \in DOMAIN v.nz : v.nz[k] = 0

StoredValues(store, id) == store[IndexOfId(store, id)].values

\* C20: zero-vector safety -- a query returns matches (it does not raise)
\* whether the query vector or stored vectors are all-zero, and a match whose
\* stored vector is all-zero, or any match of an all-zero query vector, has
\* similarity 0 (a number: no division by zero); an all-zero vector is
\* stored like any other.
C20_ZeroVectorSafety ==
  /\ call.op = "query" =>
       /\ "matches" \in DOMAIN response.result
       /\ \A n \in 1..Len(response.result.matches) :
            LET m == response.result.matches[n]
            IN (IsZeroVector(call.options.vector) \/ IsZeroVector(StoredValues(vectors, m.id)))
                 => m.score.num = 0 /\ m.score.den > 0
  /\ call.op = "upsert" =>
       /\ response.result.success
       /\ \A i \in 1..Len(call.embeddings) :
            IsZeroVector(call.embeddings[i].values) =>
              \E j \in 1..Len(vectors) : vectors[j].id = call.embeddings[i].id

C20_Witness ==
  /\ call.op = "query"
  /\ IsZeroVector(call.options.vector)
  /\ Len(response.result.matches) = 2
  /\ \E n \in 1..2 : IsZeroVector(StoredValues(vectors, response.result.matches[n].id))
  /\ \E n \in 1..2 : ~IsZeroVector(StoredValues(vectors, response.result.matches[n].id))

(***************************************************************************)
(* process.js: the router and its background tasks.                        *)
(*                                                                         *)
(* The Maps processedDocuments and documentChunks are the sequences of     *)
(* their values in insertion order; a Job carries its documentId, a chunk  *)
(* list is kept as [documentId, chunks].  Node runs a request handler, and *)
(* the continuation of a background task after extractTextFromDocument     *)
(* settles, without interleaving another handler: every other await there  *)
(* is on a promise that settles without I/O.  The only point at which a    *)
(* background task waits is the extraction (S3), so a task is one element  *)
(* of `tasks` from its start until the extraction settles.                 *)
(***************************************************************************)
MaxStarts == 2

DocIndex(map, documentId) ==
  IF \E i \in 1..Len(map) : map[i].documentId = documentId
  THEN CHOOSE i \in 1..Len(map) : map[i].documentId = documentId
  ELSE 0

\* Map.prototype.has / get / set / delete keyed by documentId
DocHas(map, documentId) == DocIndex(map, documentId) # 0

DocGet(map, documentId) == map[DocIndex(map, documentId)]

DocSet(map, entry) ==
  LET i == DocIndex(map, entry.documentId)
  IN IF i = 0 THEN Append(map, entry) ELSE [map EXCEPT ![i] = entry]

DocDelete_clear(map, documentId) == <<>>

DocDelete(map, documentId) ==
  LET Other(entry) == entry.documentId # documentId
  IN SelectSeq(map, Other)

\* lines 441-448
updateProgress(registry, documentId, progress, details) ==
  IF DocHas(registry, documentId)
  THEN DocSet(registry, Assign(DocGet(registry, documentId),
                               [progress |-> progress, progressDetails |-> details]))
  ELSE registry

\* Math.round(a / b) for a >= 0, b > 0
RoundDiv(a, b) == (2 * a + b) \div (2 * b)

\* textExtractor.js lines 316-329, for a non-empty chunk list
getChunkingStats(chunks) ==
  LET tokenCounts == {chunks[i].tokenCount : i \in 1..Len(chunks)}
      totalTokens == SumOver([i \in 1..Len(chunks) |-> chunks[i].tokenCount], 1..Len(chunks))
  IN [totalChunks |-> Len(chunks),
      totalTokens |-> totalTokens,
      avgTokensPerChunk |-> RoundDiv(totalTokens, Len(chunks)),
      maxTokensPerChunk |-> MaxOf(tokenCounts),
      minTokensPerChunk |-> MinOf(tokenCounts)]

WordsPerPage == 250

\* the number of non-empty words of a cleaned (trimmed, non-empty) text
WordCount(text) == SplitWsCount(text)

\* textExtractor.js lines 128-156 and 177-183: the result for a text/plain
\* file whose cleaned content is cleanText
extractTextFromTXT(cleanText, task, now) ==
  LET wordCount == WordCount(cleanText)
      estimatedPages == MaxOf({1, (wordCount + WordsPerPage - 1) \div WordsPerPage})
  IN [text |-> cleanText,
      pages |-> estimatedPages,
      metadata |-> [title |-> "", author |-> "", subject |-> "",
                    pages |-> estimatedPages, encoding |-> "utf-8"],
      wordCount |-> wordCount,
      characterCount |-> Len(cleanText),
      fileName |-> task.fileName,
      fileType |-> task.fileType,
      s3Key |-> task.s3Key,
      extractedAt |-> now]

PreviewLength == 300

Ellipsis == <<".", ".", ".">>

\* line 94: the answer is generateContextualResponse(message, contextChunks),
\* a function of the question and of the context chunks; the router's
\* states keep it as that pair
GeneratedAnswer(question, contextChunks) ==
  [kind |-> "generated", question |-> question, contextChunks |-> contextChunks]

\* lines 51-52
NoDocumentsAnswer ==
  [kind |-> "fixed",
   text |-> "I don't have any processed documents to search through yet. Please upload and process some documents first, then try asking your question again."]

\* lines 77-78
NotFoundAnswer ==
  [kind |-> "fixed",
   text |-> "I couldn't find any relevant information in your documents to answer that question. Try asking about topics that are covered in your uploaded documents, or try rephrasing your question."]

DefaultMaxChunks == 8

FirstThreshold == [num |-> 3, den |-> 400]

RetryThreshold == [num |-> 1, den |-> 400]

(***************************************************************************)
(* Requests and extraction outcomes of the model.                          *)
(***************************************************************************)
Docs == {"d1", "d2"}

SupportedTypes ==
  {"application/pdf",
   "application/vnd.openxmlformats-officedocument.wordprocessingml.document",
   "text/plain"}

FileA == [fileName |-> "a.txt", fileType |-> "text/plain", s3Key |-> "documents/1-a.txt"]

FileB == [fileName |-> "b.txt", fileType |-> "text/plain", s3Key |-> "documents/2-b.txt"]

\* the processing requests made: d1 is file A, d2 is file B or (processed
\* again with a shorter text) file A, and one request that lacks s3Key
ProcessRequests ==
  {[documentId |-> "d1", body |-> FileA],
   [documentId |-> "d2", body |-> FileB],
   [documentId |-> "d2", body |-> FileA],
   [documentId |-> "d1", body |-> [fileName |-> "a.txt", fileType |-> "text/plain", s3Key |-> ""]]}

\* the cleaned text of the object stored under s3Key
S3Text(s3Key) == IF s3Key = FileA.s3Key THEN ShortText ELSE LongText

ExtractionErrors == {"Failed to retrieve file from S3: NoSuchKey"}

ChatBodies ==
  {[message |-> q] : q \in Questions}
    \cup {[message |-> <<"a">>, documentId |-> d] : d \in Docs}
    \cup {[message |-> <<"a">>, maxChunks |-> k] : k \in {0, 1}}
    \cup {[message |-> MixedQuestion, documentId |-> "d2"]}
    \cup {[message |-> <<" ">>]}

(***************************************************************************)
(* Spec: the routes of process.js and the background task.                 *)
(***************************************************************************)
Init ==
  /\ AppInit
  /\ call = NoCall
  /\ response = NoResponse

\* line 385: !fileName || !fileType || !s3Key
Missing(body, k) == ~HasKey(body, k) \/ body[k] = ""

AlreadyProcessing_never(registry, documentId) == FALSE

\* line 392: existingDoc && existingDoc.status === "processing"
AlreadyProcessing(registry, documentId) ==
  DocHas(registry, documentId) /\ DocGet(registry, documentId).status = "processing"

\* lines 379-432 with the synchronous start of processDocumentInBackground
\* (lines 441-451)
PostProcess(documentId, body) ==
  /\ call' = [op |-> "process", documentId |-> documentId, body |-> body]
  /\ IF Missing(body, "fileName") \/ Missing(body, "fileType") \/ Missing(body, "s3Key")
     THEN /\ response' = [op |-> "process", status |-> 400,
                          body |-> [error |-> "Missing required fields: fileName, fileType, s3Key"]]
          /\ UNCHANGED <<processedDocuments, documentChunks, vectors, tasks, clock>>
     ELSE IF AlreadyProcessing(processedDocuments, documentId)
     THEN /\ response' = [op |-> "process", status |-> 409,
                          body |-> [error |-> "Document is already being processed",
                                    document |-> DocGet(processedDocuments, documentId)]]
          /\ UNCHANGED <<processedDocuments, documentChunks, vectors, tasks, clock>>
     ELSE /\ clock < MaxStarts
          /\ clock' = clock + 1
          /\ LET processingDoc == [documentId |-> documentId,
                                   fileName |-> body.fileName,
                                   fileType |-> body.fileType,
                                   s3Key |-> body.s3Key,
                                   status |-> "processing",
                                   startedAt |-> clock',
                                   progress |-> "Initializing..."]
             IN /\ response' = [op |-> "process", status |-> 200,
                                body |-> [message |-> "Document processing started",
                                          document |-> processingDoc]]
                /\ processedDocuments' =
                     updateProgress(DocSet(processedDocuments, processingDoc), documentId,
                                    "Extracting text...", "Downloading and parsing document")
          /\ tasks' = tasks \cup {[id |-> clock', documentId |-> documentId,
                                   fileName |-> body.fileName, fileType |-> body.fileType,
                                   s3Key |-> body.s3Key]}
          /\ UNCHANGED <<documentChunks, vectors>>

CatchFailure_statusOnly(registry, documentId, message, now) ==
  IF DocHas(registry, documentId)
  THEN DocSet(registry, Assign(DocGet(registry, documentId),
                               [status |-> "error", progress |-> "Error"]))
  ELSE registry

\* lines 514-525: the catch block
CatchFailure(registry, documentId, message, now) ==
  IF DocHas(registry, documentId)
  THEN DocSet(registry, Assign(DocGet(registry, documentId),
                               [status |-> "error", error |-> message, errorAt |-> now,
                                progress |-> "Error", progressDetails |-> message]))
  ELSE registry

\* lines 452-456 and 514-525: extractTextFromDocument rejects
BackgroundFail(task, message) ==
  /\ task \in tasks
  /\ call' = [op |-> "extractionFailed", task |-> task, error |-> message]
  /\ processedDocuments' = CatchFailure(processedDocuments, task.documentId, message, clock)
  /\ tasks' = tasks \ {task}
  /\ UNCHANGED <<documentChunks, vectors, clock, response>>

\* lines 482-510
CompletedDoc(task, registry, extractionResult, chunksWithMetadata, embeddingResult, storeResult, now) ==
  [documentId |-> task.documentId,
   fileName |-> task.fileName,
   fileType |-> task.fileType,
   s3Key |-> task.s3Key,
   status |-> "completed",
   startedAt |-> DocGet(registry, task.documentId).startedAt,
   completedAt |-> now,
   progress |-> "Completed",
   progressDetails |-> "Document processing finished successfully",
   extractionResult |-> [wordCount |-> extractionResult.wordCount,
                         characterCount |-> extractionResult.characterCount,
                         pages |-> extractionResult.pages,
                         metadata |-> extractionResult.metadata,
                         previewText |-> Substring(extractionResult.text, PreviewLength) \o Ellipsis],
   chunkingStats |-> getChunkingStats(chunksWithMetadata),
   embeddingStats |-> [totalEmbeddings |-> embeddingResult.successCount,
                       failedEmbeddings |-> embeddingResult.failureCount,
                       totalTokensUsed |-> embeddingResult.totalTokens,
                       vectorsStored |-> storeResult.storedCount],
   totalChunks |-> Len(chunksWithMetadata),
   processingTimeMs |-> now - DocGet(registry, task.documentId).startedAt]

\* lines 458-512 (and 514-525 when line 489 reads the startedAt of a Job
\* that is no longer registered: the TypeError is caught and, there being no
\* Job, nothing is recorded): extractTextFromDocument resolves
BackgroundFinish(task, cleanText) ==
  /\ task \in tasks
  /\ task.fileType \in SupportedTypes
  /\ call' = [op |-> "extractionDone", task |-> task, text |-> cleanText]
  /\ LET documentId == task.documentId
         extractionResult == extractTextFromTXT(cleanText, task, clock)
         registry1 == updateProgress(processedDocuments, documentId, "Text chunked", "Created chunks")
         textChunks == ChunkTable[extractionResult.text]
         registry2 == updateProgress(registry1, documentId, "Adding metadata...",
                                     "Enriching chunks with document information")
         chunksWithMetadata ==
           addMetadataToChunks(textChunks, documentId,
                               Assign([fileName |-> task.fileName, fileType |-> task.fileType],
                                      extractionResult.metadata),
                               clock)
         registry3 == updateProgress(registry2, documentId, "Generating embeddings...",
                                     "Converting text to AI vectors")
         embeddingResult == generateEmbeddingsForChunks(chunksWithMetadata)
         registry4 == updateProgress(registry3, documentId, "Storing vectors...",
                                     "Saving embeddings to vector store")
         stored == storeEmbeddings(vectors, embeddingResult.embeddings)
     IN /\ vectors' = stored.store
        /\ documentChunks' = DocSet(documentChunks,
                                    [documentId |-> documentId, chunks |-> chunksWithMetadata])
        /\ processedDocuments' =
             IF DocHas(registry4, documentId)
             THEN DocSet(registry4,
                         CompletedDoc(task, registry4, extractionResult, chunksWithMetadata,
                                      embeddingResult, stored.result, clock))
             ELSE CatchFailure(registry4, documentId,
                               "Cannot read properties of undefined (reading 'startedAt')", clock)
  /\ tasks' = tasks \ {task}
  /\ UNCHANGED <<clock, response>>

\* lines 528-548
GetStatus(documentId) ==
  /\ call' = [op |-> "status", documentId |-> documentId]
  /\ response' =
       IF ~DocHas(processedDocuments, documentId)
       THEN [op |-> "status", status |-> 404,
             body |-> [error |-> "Document not found", documentId |-> documentId]]
       ELSE [op |-> "status", status |-> 200,
             body |-> [document |-> DocGet(processedDocuments, documentId)]]
  /\ UNCHANGED <<processedDocuments, documentChunks, vectors, tasks, clock>>

\* lines 18-20: a stable sort, latest startedAt first
RECURSIVE InsertByStartedAt(_, _)
InsertByStartedAt(sorted, doc) ==
  IF Len(sorted) = 0 THEN <<doc>>
  ELSE IF doc.startedAt > sorted[1].startedAt THEN <<doc>> \o sorted
  ELSE <<sorted[1]>> \o InsertByStartedAt(Tail(sorted), doc)

RECURSIVE SortByStartedAt(_, _)
SortByStartedAt(docs, acc) ==
  IF Len(docs) = 0 THEN acc
  ELSE SortByStartedAt(Tail(docs), InsertByStartedAt(acc, docs[1]))

\* lines 17-34
ListDocuments ==
  /\ call' = [op |-> "list"]
  /\ LET documents == SortByStartedAt(processedDocuments, <<>>)
     IN response' = [op |-> "list", status |-> 200,
                     body |-> [documents |-> documents, total |-> Len(documents)]]
  /\ UNCHANGED <<processedDocuments, documentChunks, vectors, tasks, clock>>

\* lines 550-578
ClearEmbeddings(documentId) ==
  /\ call' = [op |-> "clearEmbeddings", documentId |-> documentId]
  /\ LET deleted == deleteDocumentEmbeddings(vectors, documentId)
     IN /\ vectors' = deleted.store
        /\ response' = [op |-> "clearEmbeddings", status |-> 200,
                        body |-> [message |-> "Document embeddings cleared successfully",
                                  documentId |-> documentId,
                                  result |-> deleted.result]]
  /\ UNCHANGED <<processedDocuments, documentChunks, tasks, clock>>

\* lines 584-585: processedDoc?.fileName || "Unknown Document"
DeletedFileName(registry, documentId) ==
  IF DocHas(registry, documentId) /\ DocGet(registry, documentId).fileName # ""
  THEN DocGet(registry, documentId).fileName
  ELSE "Unknown Document"

DeletionResponse_failed(documentId, fileName, storageCleared, remainingDocs, remainingChunks) ==
  [op |-> "delete", status |-> 500,
   body |-> [error |-> "Failed to delete processed document",
             details |-> "Embedding deletion failed"]]

\* lines 606-627
DeletionResponse(documentId, fileName, storageCleared, remainingDocs, remainingChunks) ==
  [op |-> "delete", status |-> 200,
   body |-> [message |-> "Document deletion completed",
             documentId |-> documentId,
             fileName |-> fileName,
             storageCleared |-> storageCleared,
             remainingDocs |-> remainingDocs,
             remainingChunks |-> remainingChunks]]

\* lines 580-635, deleteDocumentEmbeddings resolving (line 598)
DeleteDocument(documentId) ==
  /\ call' = [op |-> "delete", documentId |-> documentId]
  /\ LET hadProcessedDoc == DocHas(processedDocuments, documentId)
         fileName == DeletedFileName(processedDocuments, documentId)
         hadChunks == DocHas(documentChunks, documentId)
         deleted == deleteDocumentEmbeddings(vectors, documentId)
         embeddingsCleared == TRUE
     IN /\ processedDocuments' = DocDelete(processedDocuments, documentId)
        /\ documentChunks' = DocDelete(documentChunks, documentId)
        /\ vectors' = deleted.store
        /\ response' = DeletionResponse(documentId, fileName,
                                        [processedDocuments |-> hadProcessedDoc,
                                         documentChunks |-> hadChunks,
                                         embeddings |-> embeddingsCleared],
                                        Len(processedDocuments'), Len(documentChunks'))
  /\ UNCHANGED <<tasks, clock>>

\* line 40: !message || message.trim().length === 0
MessageMissing(body) ==
  ~HasKey(body, "message") \/ Len(body.message) = 0 \/ Len(Trim(body.message)) = 0

\* lines 45-47
CompletedDocs_all(registry) == registry

CompletedDocs(registry) ==
  LET Completed(doc) == doc.status = "completed"
  IN SelectSeq(registry, Completed)

\* lines 61-65 and 68-72: documentId defaults to null, maxChunks to 8
SearchOptions(body, threshold) ==
  LET maxChunks == IF HasKey(body, "maxChunks") THEN body.maxChunks ELSE DefaultMaxChunks
      base == [topK |-> maxChunks, threshold |-> threshold]
  IN IF HasKey(body, "documentId") THEN Assign(base, [documentId |-> body.documentId]) ELSE base

NeedsRetry_never(searchResult) == FALSE

\* line 67
NeedsRetry(searchResult) == Len(searchResult.results) = 0

\* lines 86-92
ContextChunks(results) ==
  [i \in 1..Len(results) |->
     [id |-> results[i].id,
      text |-> results[i].metadata.text,
      source |-> results[i].metadata.fileName,
      chunkIndex |-> results[i].metadata.chunkIndex,
      similarity |-> results[i].score]]

\* lines 96-98
SourcesOf(contextChunks) ==
  [i \in 1..Len(contextChunks) |-> [source |-> contextChunks[i].source]]

\* lines 36-113; `searches` lists the options of the searchSimilarChunks calls made
Chat(body) ==
  /\ call' = [op |-> "chat", body |-> body]
  /\ response' =
       IF MessageMissing(body)
       THEN [op |-> "chat", status |-> 400, body |-> [error |-> "Message is required"],
             searches |-> <<>>]
       ELSE IF Len(CompletedDocs(processedDocuments)) = 0
       THEN [op |-> "chat", status |-> 200,
             body |-> [message |-> body.message, answer |-> NoDocumentsAnswer,
                       sources |-> <<>>, relevantChunks |-> 0],
             searches |-> <<>>]
       ELSE
         LET first == SearchOptions(body, FirstThreshold)
             searchResult == searchSimilarChunks(vectors, body.message, first)
             retry == SearchOptions(body, RetryThreshold)
             retryResult == searchSimilarChunks(vectors, body.message, retry)
         IN IF NeedsRetry(searchResult) /\ Len(retryResult.results) = 0
            THEN [op |-> "chat", status |-> 200,
                  body |-> [message |-> body.message, answer |-> NotFoundAnswer,
                            sources |-> <<>>, relevantChunks |-> 0],
                  searches |-> <<first, retry>>]
            ELSE
              LET results == IF NeedsRetry(searchResult) THEN retryResult.results
                             ELSE searchResult.results
                  contextChunks == ContextChunks(results)
              IN [op |-> "chat", status |-> 200,
                  body |-> [message |-> body.message,
                            answer |-> GeneratedAnswer(body.message, contextChunks),
                            sources |-> SourcesOf(contextChunks),
                            relevantChunks |-> Len(results)],
                  searches |-> IF NeedsRetry(searchResult) THEN <<first, retry>> ELSE <<first>>]
  /\ UNCHANGED <<processedDocuments, documentChunks, vectors, tasks, clock>>

Next ==
  \/ \E request \in ProcessRequests : PostProcess(request.documentId, request.body)
  \/ \E task \in tasks, message \in ExtractionErrors : BackgroundFail(task, message)
  \/ \E task \in tasks : BackgroundFinish(task, S3Text(task.s3Key))
  \/ \E documentId \in Docs : GetStatus(documentId)
  \/ ListDocuments
  \/ \E documentId \in Docs : ClearEmbeddings(documentId)
  \/ \E documentId \in Docs : DeleteDocument(documentId)
  \/ \E body \in ChatBodies : Chat(body)

Spec == Init /\ [][Next]_vars

(***************************************************************************)
(* FaultSpec: the router with an embedding service whose                   *)
(* deleteDocumentEmbeddings may reject (freeEmbeddingService.js line 302). *)
(* Nothing makes the in-memory store's deleteMany throw on the records the *)
(* router stores, so the rejection is a fault put in from outside; it is   *)
(* taken to happen before any record is removed.                           *)
(***************************************************************************)
\* lines 580-635, deleteDocumentEmbeddings rejecting (lines 599-604)
DeleteDocumentRejected(documentId, embeddingError) ==
  /\ call' = [op |-> "delete", documentId |-> documentId, embeddingError |-> embeddingError]
  /\ LET hadProcessedDoc == DocHas(processedDocuments, documentId)
         fileName == DeletedFileName(processedDocuments, documentId)
         hadChunks == DocHas(documentChunks, documentId)
         embeddingsCleared == FALSE
     IN /\ processedDocuments' = DocDelete(processedDocuments, documentId)
        /\ documentChunks' = DocDelete(documentChunks, documentId)
        /\ response' = DeletionResponse(documentId, fileName,
                                        [processedDocuments |-> hadProcessedDoc,
                                         documentChunks |-> hadChunks,
                                         embeddings |-> embeddingsCleared],
                                        Len(processedDocuments'), Len(documentChunks'))
  /\ UNCHANGED <<vectors, tasks, clock>>

FaultNext ==
  \/ Next
  \/ \E documentId \in Docs :
       \E embeddingError \in {"Embedding deletion failed: store unavailable"} :
         DeleteDocumentRejected(documentId, embeddingError)

FaultSpec == Init /\ [][FaultNext]_vars

(***************************************************************************)
(* process.js lines 115-377: generateContextualResponse and its builders,  *)
(* on strings as sequences of characters.                                  *)
(***************************************************************************)
\* String.prototype.includes
Includes(s, sub) ==
  \E i \in 1..(Len(s) - Len(sub) + 1) : SubSeq(s, i, i + Len(sub) - 1) = sub

\* String.prototype.toLowerCase
ToLower(s) == [i \in 1..Len(s) |-> ToLowerChar(s[i])]

\* Array.prototype.join(sep)
RECURSIVE Join(_, _)
Join(ss, sep) ==
  IF Len(ss) = 0 THEN <<>>
  ELSE IF Len(ss) = 1 THEN ss[1]
  ELSE ss[1] \o sep \o Join(Tail(ss), sep)

\* line 125 split(/[.!?]+/) and line 349 split(/\s+/): the pieces between
\* the maximal runs of characters of `marks`
SplitOnRuns(s, marks) ==
  LET RunStarts == {j \in 1..Len(s) : s[j] \in marks /\ (j = 1 \/ s[j-1] \notin marks)}
      RunEnd(j) == MinOf({k \in j..Len(s) : k = Len(s) \/ s[k+1] \notin marks})
      starts == SortedSeq(RunStarts)
      n == Len(starts)
  IN [i \in 1..(n+1) |->
        LET from == IF i = 1 THEN 1 ELSE RunEnd(starts[i-1]) + 1
            to   == IF i = n + 1 THEN Len(s) ELSE starts[i] - 1
        IN SubSeq(s, from, to)]

\* lines 121-128: split, trim, keep s.length > 20, slice(0, 15)
CandidateSentences(contextChunks) ==
  LET combinedContext == JoinSpace([i \in 1..Len(contextChunks) |-> contextChunks[i].text])
      pieces == SplitOnRuns(combinedContext, Terminal)
      trimmed == [i \in 1..Len(pieces) |-> Trim(pieces[i])]
      LongEnough(s) == Len(s) > 20
  IN SliceTo(SelectSeq(trimmed, LongEnough), 15)

\* the keyword literals of lines 131-148 (question) and of the builders
Keywords ==
  [what |-> <<"w", "h", "a", "t">>,
   how |-> <<"h", "o", "w">>,
   why |-> <<"w", "h", "y">>,
   when |-> <<"w", "h", "e", "n">>,
   where |-> <<"w", "h", "e", "r", "e">>,
   \* lines 135-137
   overviewQuestion |->
     {<<"a", "b", "o", "u", "t">>,
      <<"o", "v", "e", "r", "v", "i", "e", "w">>,
      <<"s", "u", "m", "m", "a", "r", "y">>},
   \* line 141
   listQuestion |->
     {<<"l", "i", "s", "t">>,
      <<"w", "h", "a", "t", " ", "a", "r", "e">>},
   \* line 148
   subject |->
     {<<"d", "o", "c", "u", "m", "e", "n", "t">>,
      <<"p", "r", "o", "j", "e", "c", "t">>},
   \* lines 186-193
   overview |->
     {<<"o", "v", "e", "r", "v", "i", "e", "w">>,
      <<"i", "n", "t", "r", "o", "d", "u", "c", "t", "i", "o", "n">>,
      <<"d", "o", "c", "u", "m", "e", "n", "t">>,
      <<"p", "r", "o", "j", "e", "c", "t">>,
      <<"s", "y", "s", "t", "e", "m">>,
      <<"a", "s", "s", "i", "g", "n", "m", "e", "n", "t">>,
      <<"i", "m", "p", "l", "e", "m", "e", "n", "t", "s">>,
      <<"d", "e", "s", "i", "g", "n", "e", "d">>},
   \* lines 215-216
   ordinal |->
     {<<"f", "i", "r", "s", "t">>,
      <<"s", "e", "c", "o", "n", "d">>},
   \* lines 222-224
   listing |->
     {<<"i", "n", "c", "l", "u", "d", "e">>,
      <<"c", "o", "n", "t", "a", "i", "n", "s">>,
      <<"c", "o", "n", "s", "i", "s", "t", "s">>},
   \* lines 243-250
   process |->
     {<<"s", "t", "e", "p">>,
      <<"p", "r", "o", "c", "e", "s", "s">>,
      <<"m", "e", "t", "h", "o", "d">>,
      <<"p", "r", "o", "c", "e", "d", "u", "r", "e">>,
      <<"i", "m", "p", "l", "e", "m", "e", "n", "t">>,
      <<"c", "r", "e", "a", "t", "e">>,
      <<"b", "u", "i", "l", "d">>,
      <<"s", "e", "t", "u", "p">>},
   \* line 251
   sequence |->
     {<<"f", "i", "r", "s", "t">>,
      <<"t", "h", "e", "n">>,
      <<"n", "e", "x", "t">>,
      <<"f", "i", "n", "a", "l", "l", "y">>,
      <<"a", "f", "t", "e", "r">>},
   \* lines 264-267
   instruction |->
     {<<"m", "u", "s", "t">>,
      <<"s", "h", "o", "u", "l", "d">>,
      <<"n", "e", "e", "d", " ", "t", "o">>,
      <<"r", "e", "q", "u", "i", "r", "e", "d">>},
   \* lines 284-291
   reason |->
     {<<"b", "e", "c", "a", "u", "s", "e">>,
      <<"s", "i", "n", "c", "e">>,
      <<"r", "e", "a", "s", "o", "n">>,
      <<"p", "u", "r", "p", "o", "s", "e">>,
      <<"g", "o", "a", "l">>,
      <<"o", "b", "j", "e", "c", "t", "i", "v", "e">>,
      <<"d", "u", "e", " ", "t", "o">>,
      <<"i", "n", " ", "o", "r", "d", "e", "r", " ", "t", "o">>},
   \* lines 315-320
   time |->
     {<<"t", "i", "m", "e">>,
      <<"d", "a", "t", "e">>,
      <<"w", "h", "e", "n">>,
      <<"d", "u", "r", "i", "n", "g">>,
      <<"b", "e", "f", "o", "r", "e">>,
      <<"a", "f", "t", "e", "r">>},
   \* lines 325-330
   place |->
     {<<"l", "o", "c", "a", "t", "i", "o", "n">>,
      <<"d", "i", "r", "e", "c", "t", "o", "r", "y">>,
      <<"p", "a", "t", "h">>,
      <<"w", "h", "e", "r", "e">>,
      <<"e", "n", "v", "i", "r", "o", "n", "m", "e", "n", "t">>,
      <<"s", "y", "s", "t", "e", "m">>},
   \* line 353
   stop |->
     {<<"w", "h", "a", "t">>,
      <<"h", "o", "w">>,
      <<"w", "h", "y">>,
      <<"w", "h", "e", "n">>,
      <<"w", "h", "e", "r", "e">>,
      <<"d", "o", "e", "s">>,
      <<"t", "h", "i", "s">>}]

\* a.includes(w1) || a.includes(w2) || ...
IncludesAny(s, words) == \E w \in words : Includes(s, w)

QuestionCategory_listFirst(questionLower) ==
  IF IncludesAny(questionLower, Keywords.listQuestion) THEN "list"
  ELSE IF \/ IncludesAny(questionLower, Keywords.overviewQuestion)
          \/ /\ Includes(questionLower, Keywords.what)
             /\ IncludesAny(questionLower, Keywords.subject)
  THEN "overview"
  ELSE IF Includes(questionLower, Keywords.how) THEN "how"
  ELSE IF Includes(questionLower, Keywords.why) THEN "why"
  ELSE IF Includes(questionLower, Keywords.when) \/ Includes(questionLower, Keywords.where)
  THEN "whenWhere"
  ELSE "general"

\* lines 130-171: the branch taken
QuestionCategory(questionLower) ==
  IF \/ IncludesAny(questionLower, Keywords.overviewQuestion)
     \/ /\ Includes(questionLower, Keywords.what)
        /\ IncludesAny(questionLower, Keywords.subject)
  THEN "overview"
  ELSE IF IncludesAny(questionLower, Keywords.listQuestion) THEN "list"
  ELSE IF Includes(questionLower, Keywords.how) THEN "how"
  ELSE IF Includes(questionLower, Keywords.why) THEN "why"
  ELSE IF Includes(questionLower, Keywords.when) \/ Includes(questionLower, Keywords.where)
  THEN "whenWhere"
  ELSE "general"

\* lines 198, 231, 256, 337, 363, 376
BasedOnPrefix ==
  <<"B", "a", "s", "e", "d", " ", "o", "n", " ", "y", "o", "u", "r", " ", "d",
    "o", "c", "u", "m", "e", "n", "t", "s", ":", "\n", "\n">>

\* line 374
FallbackText ==
  <<"I", " ", "f", "o", "u", "n", "d", " ", "s", "o", "m", "e", " ", "i", "n",
    "f", "o", "r", "m", "a", "t", "i", "o", "n", " ", "i", "n", " ", "y", "o",
    "u", "r", " ", "d", "o", "c", "u", "m", "e", "n", "t", "s", ",", " ", "b",
    "u", "t", " ", "c", "o", "u", "l", "d", "n", "'", "t", " ", "e", "x", "t",
    "r", "a", "c", "t", " ", "a", " ", "c", "l", "e", "a", "r", " ", "a", "n",
    "s", "w", "e", "r", " ", "t", "o", " ", "y", "o", "u", "r", " ", "q", "u",
    "e", "s", "t", "i", "o", "n", ".">>

\* sentences.filter(s => test(s.toLowerCase()))
FilterLower(sentences, Test(_)) ==
  LET Keep(s) == Test(ToLower(s)) IN SelectSeq(sentences, Keep)

\* lines 181-205
buildOverviewResponse(sentences) ==
  LET Test(lower) == IncludesAny(lower, Keywords.overview)
      overviewSentences == FilterLower(sentences, Test)
  IN IF Len(overviewSentences) > 0
     THEN BasedOnPrefix \o Join(SliceTo(overviewSentences, 3), <<".", " ">>) \o <<".">>
     ELSE BasedOnPrefix \o Join(SliceTo(sentences, 3), <<".", " ">>) \o <<".">>

\* lines 211-228: a sentence passing both tests is pushed twice
RECURSIVE ListItems(_)
ListItems(sentences) ==
  IF Len(sentences) = 0 THEN <<>>
  ELSE LET sentence == sentences[1]
           \* line 214: /^\d+[\.)]\s/
           StartsNumbered(s) ==
             \E n \in 1..(Len(s) - 2) :
               /\ \A i \in 1..n : s[i] \in {"0", "1", "2", "3", "4", "5", "6", "7", "8", "9"}
               /\ s[n+1] \in {".", ")"}
               /\ s[n+2] \in Whitespace
           numbered == \/ StartsNumbered(Trim(sentence))
                       \/ IncludesAny(sentence, Keywords.ordinal)
           bullet == IncludesAny(sentence, Keywords.listing)
       IN (IF numbered THEN <<sentence>> ELSE <<>>)
            \o (IF bullet THEN <<sentence>> ELSE <<>>)
            \o ListItems(Tail(sentences))

\* lines 207-236
buildListResponse(sentences) ==
  LET listItems == ListItems(sentences)
  IN IF Len(listItems) > 0
     THEN BasedOnPrefix \o Join(SliceTo(listItems, 5), <<"\n", "\n">>)
     ELSE BasedOnPrefix \o Join(SliceTo(sentences, 4), <<"\n", "\n">>)

\* lines 238-277
buildHowResponse(sentences) ==
  LET \* \w
      IsWordChar(c) ==
        \/ \E i \in 1..Len(LowerCase) : c \in {LowerCase[i], UpperCase[i]}
        \/ c \in {"0", "1", "2", "3", "4", "5", "6", "7", "8", "9", "_"}
      \* line 251: /\b(first|then|next|finally|after)\b/
      IncludesWord(s, words) ==
        \E w \in words :
          \E i \in 1..(Len(s) - Len(w) + 1) :
            /\ SubSeq(s, i, i + Len(w) - 1) = w
            /\ i = 1 \/ ~IsWordChar(s[i-1])
            /\ i + Len(w) - 1 = Len(s) \/ ~IsWordChar(s[i + Len(w)])
      Test(lower) == \/ IncludesAny(lower, Keywords.process)
                     \/ IncludesWord(lower, Keywords.sequence)
      howSentences == FilterLower(sentences, Test)
      Instructional(s) == IncludesAny(s, Keywords.instruction)
      instructionalSentences == SelectSeq(sentences, Instructional)
  IN IF Len(howSentences) > 0
     THEN BasedOnPrefix \o Join(SliceTo(howSentences, 4), <<"\n", "\n">>)
     ELSE IF Len(instructionalSentences) > 0
     THEN BasedOnPrefix \o Join(SliceTo(instructionalSentences, 3), <<"\n", "\n">>)
     ELSE BasedOnPrefix \o Join(SliceTo(sentences, 3), <<"\n", "\n">>)

\* lines 279-304
buildWhyResponse(sentences) ==
  LET \* lines 296, 301
      AccordingToPrefix ==
        <<"A", "c", "c", "o", "r", "d", "i", "n", "g", " ", "t", "o", " ", "y", "o",
          "u", "r", " ", "d", "o", "c", "u", "m", "e", "n", "t", "s", ":", "\n", "\n">>
      Test(lower) == IncludesAny(lower, Keywords.reason)
      whySentences == FilterLower(sentences, Test)
  IN IF Len(whySentences) > 0
     THEN AccordingToPrefix \o Join(SliceTo(whySentences, 3), <<"\n", "\n">>)
     ELSE AccordingToPrefix \o Join(SliceTo(sentences, 3), <<"\n", "\n">>)

\* lines 306-343
buildWhenWhereResponse(sentences, questionLower) ==
  LET isWhen == Includes(questionLower, Keywords.when)
      isWhere == Includes(questionLower, Keywords.where)
      Test(lower) == IF isWhen THEN IncludesAny(lower, Keywords.time)
                     ELSE IF isWhere THEN IncludesAny(lower, Keywords.place)
                     ELSE FALSE
      relevantSentences == FilterLower(sentences, Test)
  IN IF Len(relevantSentences) > 0
     THEN BasedOnPrefix \o Join(SliceTo(relevantSentences, 3), <<"\n", "\n">>)
     ELSE BasedOnPrefix \o Join(SliceTo(sentences, 3), <<"\n", "\n">>)

\* lines 345-370
buildGeneralResponse(question, sentences) ==
  LET \* lines 347-354: word.length > 3 and not a stop word
      KeyTerm(word) == Len(word) > 3 /\ word \notin Keywords.stop
      questionWords == SelectSeq(SplitOnRuns(ToLower(question), Whitespace), KeyTerm)
      Test(lower) == \E i \in 1..Len(questionWords) : Includes(lower, questionWords[i])
      relevantSentences == FilterLower(sentences, Test)
  IN IF Len(relevantSentences) > 0
     THEN BasedOnPrefix \o Join(SliceTo(relevantSentences, 4), <<"\n", "\n">>)
     ELSE BasedOnPrefix \o Join(SliceTo(sentences, 3), <<"\n", "\n">>)

\* lines 372-377
buildFallbackResponse(sentences) ==
  IF Len(sentences) = 0 THEN FallbackText
  ELSE BasedOnPrefix \o Join(SliceTo(sentences, 2), <<"\n", "\n">>)

\* lines 145-171: the builder of a category
BuildResponse(category, question, questionLower, sentences) ==
  CASE category = "overview" -> buildOverviewResponse(sentences)
    [] category = "list" -> buildListResponse(sentences)
    [] category = "how" -> buildHowResponse(sentences)
    [] category = "why" -> buildWhyResponse(sentences)
    [] category = "whenWhere" -> buildWhenWhereResponse(sentences, questionLower)
    [] category = "general" -> buildGeneralResponse(question, sentences)

\* lines 115-179
generateContextualResponse(question, contextChunks) ==
  LET \* line 117
      NoContextText ==
        <<"I", " ", "c", "o", "u", "l", "d", "n", "'", "t", " ", "f", "i", "n", "d",
          " ", "r", "e", "l", "e", "v", "a", "n", "t", " ", "i", "n", "f", "o", "r",
          "m", "a", "t", "i", "o", "n", " ", "i", "n", " ", "y", "o", "u", "r", " ",
          "d", "o", "c", "u", "m", "e", "n", "t", "s", " ", "t", "o", " ", "a", "n",
          "s", "w", "e", "r", " ", "t", "h", "i", "s", " ", "q", "u", "e", "s", "t",
          "i", "o", "n", ".">>
      questionLower == Trim(ToLower(question))
      sentences == CandidateSentences(contextChunks)
      built == BuildResponse(QuestionCategory(questionLower), question, questionLower,
                             sentences)
      answer == IF Len(Trim(built)) = 0 THEN buildFallbackResponse(sentences)
                ELSE built
  IN IF Len(contextChunks) = 0 THEN NoContextText ELSE Trim(answer)

(***************************************************************************)
(* AnswerSpec: generateContextualResponse applied to questions made of     *)
(* keyword phrases and to sample context chunks.                           *)
(***************************************************************************)
MaxQuestionPhrases == 2

\* questions: one to MaxQuestionPhrases keyword phrases joined by a space
SampleQuestions ==
  LET QuestionPhrases ==
        {<<"s", "u", "m", "m", "a", "r", "y">>,
         <<"w", "h", "a", "t">>,
         <<"d", "o", "c", "u", "m", "e", "n", "t">>,
         <<"l", "i", "s", "t">>,
         <<"w", "h", "a", "t", " ", "a", "r", "e">>,
         <<"h", "o", "w">>,
         <<"w", "h", "y">>,
         <<"w", "h", "e", "n">>,
         <<"w", "h", "e", "r", "e">>,
         <<"t", "e", "l", "l">>,
         <<"S", "h", "o", "w">>}
  IN {JoinSpace(phrases) : phrases \in SeqsUpTo(QuestionPhrases, MaxQuestionPhrases) \ {<<>>}}

\* process.js lines 86-92: context chunks; only their text is read
SampleContexts ==
  LET \* no sentence longer than 20 characters
      NoCandidateText ==
        <<"a", ".", " ", "b", " ", "c", ".">>
      \* three candidate sentences and a short one
      FirstChunkText ==
        <<"t", "h", "e", " ", "s", "y", "s", "t", "e", "m", " ", "o", "v", "e", "r",
          "v", "i", "e", "w", " ", "i", "s", " ", "s", "h", "o", "r", "t", ".", " ",
          "f", "i", "r", "s", "t", " ", "c", "r", "e", "a", "t", "e", " ", "t", "h",
          "e", " ", "i", "n", "d", "e", "x", " ", "a", "n", "d", " ", "t", "h", "e",
          "n", " ", "b", "u", "i", "l", "d", " ", "i", "t", ".", " ", "t", "o", "o",
          " ", "s", "h", "o", "r", "t", ".", " ", "t", "h", "i", "s", " ", "i", "s",
          " ", "d", "o", "n", "e", " ", "b", "e", "c", "a", "u", "s", "e", " ", "o",
          "f", " ", "t", "h", "e", " ", "s", "t", "a", "t", "e", "d", " ", "g", "o",
          "a", "l", ".">>
      SecondChunkText ==
        <<"t", "h", "e", " ", "d", "a", "t", "e", " ", "i", "s", " ", "s", "e", "t",
          " ", "b", "e", "f", "o", "r", "e", " ", "t", "h", "e", " ", "p", "a", "t",
          "h", " ", "i", "s", " ", "k", "n", "o", "w", "n", "!", " ", "i", "t", " ",
          "s", "h", "o", "u", "l", "d", " ", "i", "n", "c", "l", "u", "d", "e", " ",
          "a", " ", "l", "i", "s", "t", " ", "o", "f", " ", "i", "t", "e", "m", "s",
          "?">>
      \* a sentence of 20 characters with its full stop, then a longer one
      BoundaryText ==
        <<"i", "t", " ", "h", "a", "s", " ", "t", "w", "e", "n", "t", "y", " ", "c",
          "h", "a", "r", "s", ".", " ", "t", "h", "i", "s", " ", "o", "n", "e", " ",
          "i", "s", " ", "c", "l", "e", "a", "r", "l", "y", " ", "l", "o", "n", "g",
          " ", "e", "n", "o", "u", "g", "h", ".">>
      SampleContextChunk(id, text) ==
        [id |-> id, text |-> text, source |-> "a.txt", chunkIndex |-> 0]
  IN {<<SampleContextChunk("d1_chunk_0", NoCandidateText)>>,
      <<SampleContextChunk("d1_chunk_0", BoundaryText)>>,
      <<SampleContextChunk("d1_chunk_0", FirstChunkText)>>,
      <<SampleContextChunk("d1_chunk_1", SecondChunkText)>>,
      <<SampleContextChunk("d1_chunk_0", FirstChunkText),
        SampleContextChunk("d1_chunk_1", SecondChunkText)>>}

AnswerInit ==
  /\ AppInit
  /\ call \in [op : {"answer"}, question : SampleQuestions, contextChunks : SampleContexts]
  /\ response = NoResponse

\* `category` and `sentences` are the branch taken and the candidate
\* sentences (locals of the function, not part of what it returns)
AnswerCall ==
  /\ call.op = "answer"
  /\ response = NoResponse
  /\ response' = [op |-> "answer",
                  answer |-> generateContextualResponse(call.question, call.contextChunks),
                  category |-> QuestionCategory(Trim(ToLower(call.question))),
                  sentences |-> CandidateSentences(call.contextChunks)]
  /\ UNCHANGED <<processedDocuments, documentChunks, vectors, tasks, clock, call>>

AnswerNext == AnswerCall

AnswerSpec == AnswerInit /\ [][AnswerNext]_vars

(***************************************************************************)
(* Properties of the router (Spec).                                        *)
(***************************************************************************)
JobsOf(registry, documentId) ==
  {i \in 1..Len(registry) : registry[i].documentId = documentId}

IsProcessing(registry, documentId) ==
  \E i \in JobsOf(registry, documentId) : registry[i].status = "processing"

HasRequiredFields(body) ==
  \A k \in {"fileName", "fileType", "s3Key"} : k \in DOMAIN body /\ body[k] # ""

RecordsOf(store, documentId) ==
  {i \in 1..Len(store) : store[i].metadata.documentId = documentId}

OtherEntries(map, documentId) ==
  LET Other(entry) == entry.documentId # documentId
  IN SelectSeq(map, Other)

OtherRecords(store, documentId) ==
  LET Other(record) == record.metadata.documentId # documentId
  IN SelectSeq(store, Other)

\* C1: a processing request carrying the required fields that is handled
\* while the Job registered for its documentId has status processing is
\* answered 409 with that Job as `document`; the registry, the chunk lists,
\* the vector store and the set of running background tasks are unchanged,
\* and exactly one Job is registered for the documentId afterwards.
C1_ConflictWhileProcessing ==
  [][(/\ call'.op = "process"
      /\ HasRequiredFields(call'.body)
      /\ IsProcessing(processedDocuments, call'.documentId))
     => (/\ response'.status = 409
         /\ \E i \in JobsOf(processedDocuments, call'.documentId) :
              response'.body.document = processedDocuments[i]
         /\ processedDocuments' = processedDocuments
         /\ documentChunks' = documentChunks
         /\ vectors' = vectors
         /\ tasks' = tasks
         /\ clock' = clock
         /\ Cardinality(JobsOf(processedDocuments', call'.documentId)) = 1)]_vars

C1_Witness ==
  /\ call.op = "process"
  /\ response.op = "process"
  /\ response.status = 409
  /\ response.body.document.status = "processing"
  /\ \E task \in tasks : task.documentId = call.documentId
  /\ Cardinality(JobsOf(processedDocuments, call.documentId)) = 1

\* C2: a Job that entered processing reaches completed or error: when a
\* background task ends (its extraction having resolved or rejected), a Job
\* is registered for the task's documentId and its status is completed or
\* error.
C2_TaskEndsInTerminalJob ==
  [][(call'.op \in {"extractionDone", "extractionFailed"})
     => (/\ JobsOf(processedDocuments', call'.task.documentId) # {}
         /\ \A i \in JobsOf(processedDocuments', call'.task.documentId) :
              processedDocuments'[i].status \in {"completed", "error"})]_vars

\* C3: when the extraction of a background task rejects, the Job registered
\* for the task's documentId (if any) has status error, the failure message
\* as error and the time as errorAt; no chunk list and no vector record is
\* written; the last response is untouched.  When the last stage fails
\* because no Job is registered, nothing is recorded in the registry.  The
\* response of the request that starts a task is 200 with the processing Job
\* and carries no error.
C3_FailureRecordedOnJob ==
  [][/\ (call'.op = "extractionFailed"
         => LET documentId == call'.task.documentId
            IN /\ call'.task \in tasks
               /\ tasks' = tasks \ {call'.task}
               /\ Cardinality(JobsOf(processedDocuments', documentId))
                    = Cardinality(JobsOf(processedDocuments, documentId))
               /\ \A i \in JobsOf(processedDocuments', documentId) :
                    /\ processedDocuments'[i].status = "error"
                    /\ "error" \in DOMAIN processedDocuments'[i]
                    /\ processedDocuments'[i].error = call'.error
                    /\ "errorAt" \in DOMAIN processedDocuments'[i]
                    /\ processedDocuments'[i].errorAt = clock
               /\ OtherEntries(processedDocuments', documentId)
                    = OtherEntries(processedDocuments, documentId)
               /\ documentChunks' = documentChunks
               /\ vectors' = vectors
               /\ response' = response)
     /\ (call'.op = "extractionDone"
           /\ JobsOf(processedDocuments, call'.task.documentId) = {}
         => /\ processedDocuments' = processedDocuments
            /\ response' = response)
     /\ (call'.op = "process" /\ tasks' # tasks
         => /\ response'.status = 200
            /\ response'.body.document.status = "processing"
            /\ response'.body.document.documentId = call'.documentId
            /\ "error" \notin DOMAIN response'.body.document
            /\ "error" \notin DOMAIN response'.body
            /\ \E task \in tasks' \ tasks : task.documentId = call'.documentId)]_vars

C3_Witness ==
  /\ call.op = "extractionFailed"
  /\ response.op = "process"
  /\ response.status = 200
  /\ response.body.document.documentId = call.task.documentId
  /\ \E i \in JobsOf(processedDocuments, call.task.documentId) :
       /\ processedDocuments[i].status = "error"
       /\ processedDocuments[i].error = call.error
  /\ RecordsOf(vectors, call.task.documentId) = {}

\* C4: right after a DELETE /process/d is handled, no Job and no chunk list
\* is registered for d and no vector record has metadata.documentId = d,
\* whatever was registered before; the Jobs, chunk lists and vector records
\* of every other documentId are the same, in the same order.
C4_DeleteRemovesDocument ==
  [][(call'.op = "delete")
     => LET documentId == call'.documentId
        IN /\ response'.status = 200
           /\ JobsOf(processedDocuments', documentId) = {}
           /\ JobsOf(documentChunks', documentId) = {}
           /\ RecordsOf(vectors', documentId) = {}
           /\ OtherEntries(processedDocuments', documentId)
                = OtherEntries(processedDocuments, documentId)
           /\ OtherEntries(documentChunks', documentId)
                = OtherEntries(documentChunks, documentId)
           /\ OtherRecords(vectors', documentId) = OtherRecords(vectors, documentId)]_vars

C4_Witness ==
  /\ call.op = "delete"
  /\ response.op = "delete"
  /\ response.body.storageCleared.processedDocuments
  /\ response.body.storageCleared.documentChunks
  /\ JobsOf(processedDocuments, call.documentId) = {}
  /\ RecordsOf(vectors, call.documentId) = {}
  /\ Len(processedDocuments) > 0
  /\ Len(documentChunks) > 0
  /\ Len(vectors) > 0

HasMessage(body) ==
  "message" \in DOMAIN body /\ \E i \in 1..Len(body.message) : body.message[i] \notin Whitespace

NoneCompleted(registry) == \A i \in 1..Len(registry) : registry[i].status # "completed"

\* C5: a chat request with a non-blank message handled while no Job has
\* status completed is answered 200 with the fixed "no processed documents"
\* answer, no sources and relevantChunks 0, and makes no search of the vector
\* store, whatever the store holds and whatever documentId the body names.
C5_NoCompletedDocuments ==
  [][(/\ call'.op = "chat"
      /\ HasMessage(call'.body)
      /\ NoneCompleted(processedDocuments))
     => (/\ response'.status = 200
         /\ response'.body.message = call'.body.message
         /\ response'.body.answer.kind = "fixed"
         /\ response'.body.answer = NoDocumentsAnswer
         /\ response'.body.sources = <<>>
         /\ response'.body.relevantChunks = 0
         /\ response'.searches = <<>>
         /\ vectors' = vectors)]_vars

C5_Witness ==
  /\ call.op = "chat"
  /\ "documentId" \in DOMAIN call.body
  /\ RecordsOf(vectors, call.body.documentId) # {}
  /\ NoneCompleted(processedDocuments)
  /\ Len(processedDocuments) > 0
  /\ response.op = "chat"
  /\ response.body.answer = NoDocumentsAnswer

\* the chunks a search of `store` for `message` yields at `threshold`
MatchesAt(store, body, threshold) ==
  searchSimilarChunks(store, body.message,
                      [topK |-> IF "maxChunks" \in DOMAIN body THEN body.maxChunks ELSE 8,
                       threshold |-> threshold]
                        @@ (IF "documentId" \in DOMAIN body
                            THEN [documentId |-> body.documentId] ELSE <<>>)).results

IdsOf(results) == [i \in 1..Len(results) |-> results[i].id]

AnsweredFrom(resp, results) ==
  /\ resp.body.answer.kind = "generated"
  /\ IdsOf(resp.body.answer.contextChunks) = IdsOf(results)
  /\ resp.body.relevantChunks = Len(results)
  /\ Len(resp.body.sources) = Len(results)

\* C6: a chat request with a non-blank message handled while some Job is
\* completed searches at threshold 0.15; if that search has matches it is
\* the only search and the answer is built from its matches; otherwise
\* exactly one more search is made, at threshold 0.05, and the answer is
\* built from its matches if it has any, and is the fixed "couldn't find"
\* answer with no sources and relevantChunks 0 if it has none.
C6_RetryOnceAtLowerThreshold ==
  [][(/\ call'.op = "chat"
      /\ HasMessage(call'.body)
      /\ ~NoneCompleted(processedDocuments))
     => LET first == MatchesAt(vectors, call'.body, [num |-> 3, den |-> 400])
            retry == MatchesAt(vectors, call'.body, [num |-> 1, den |-> 400])
            thresholds == [i \in 1..Len(response'.searches) |-> response'.searches[i].threshold]
        IN /\ response'.status = 200
           /\ IF Len(first) > 0
              THEN /\ thresholds = <<[num |-> 3, den |-> 400]>>
                   /\ AnsweredFrom(response', first)
              ELSE /\ thresholds = <<[num |-> 3, den |-> 400], [num |-> 1, den |-> 400]>>
                   /\ IF Len(retry) > 0
                      THEN AnsweredFrom(response', retry)
                      ELSE /\ response'.body.answer = NotFoundAnswer
                           /\ response'.body.sources = <<>>
                           /\ response'.body.relevantChunks = 0]_vars

C6_Witness ==
  /\ call.op = "chat"
  /\ response.op = "chat"
  /\ response.status = 200
  /\ Len(response.searches) = 2
  /\ response.body.answer.kind = "generated"
  /\ response.body.relevantChunks > 0
  /\ \A i \in 1..Len(response.body.answer.contextChunks) :
       /\ ScoreGE(response.body.answer.contextChunks[i].similarity, [num |-> 1, den |-> 400])
       /\ ~ScoreGE(response.body.answer.contextChunks[i].similarity, [num |-> 3, den |-> 400])

\* C14: a DELETE /process/d handled while d has no Job, no chunk list and no
\* vector record is answered 200, changes nothing, and its deletion summary
\* has no storageCleared flag set.
C14_DeleteOfNothing ==
  [][(/\ call'.op = "delete"
      /\ JobsOf(processedDocuments, call'.documentId) = {}
      /\ JobsOf(documentChunks, call'.documentId) = {}
      /\ RecordsOf(vectors, call'.documentId) = {})
     => (/\ response'.status = 200
         /\ processedDocuments' = processedDocuments
         /\ documentChunks' = documentChunks
         /\ vectors' = vectors
         /\ tasks' = tasks
         /\ ~response'.body.storageCleared.processedDocuments
         /\ ~response'.body.storageCleared.documentChunks
         /\ ~response'.body.storageCleared.embeddings)]_vars

\* C15: when the embedding deletion of a DELETE /process/d rejects, the Job
\* and the chunk list of d are removed all the same, the answer is 200 with
\* the deletion summary and no error, and the summary's embeddings flag is
\* false while its other two flags tell what was registered.
C15_EmbeddingDeletionFails ==
  [][(call'.op = "delete" /\ "embeddingError" \in DOMAIN call')
     => LET documentId == call'.documentId
        IN /\ JobsOf(processedDocuments', documentId) = {}
           /\ JobsOf(documentChunks', documentId) = {}
           /\ OtherEntries(processedDocuments', documentId)
                = OtherEntries(processedDocuments, documentId)
           /\ OtherEntries(documentChunks', documentId)
                = OtherEntries(documentChunks, documentId)
           /\ response'.status = 200
           /\ DOMAIN response'.body
                = {"message", "documentId", "fileName", "storageCleared",
                   "remainingDocs", "remainingChunks"}
           /\ response'.body.storageCleared.embeddings = FALSE
           /\ response'.body.storageCleared.processedDocuments
                <=> (JobsOf(processedDocuments, documentId) # {})
           /\ response'.body.storageCleared.documentChunks
                <=> (JobsOf(documentChunks, documentId) # {})
           /\ response'.body.remainingDocs = Len(processedDocuments')
           /\ response'.body.remainingChunks = Len(documentChunks')]_vars

C15_Witness ==
  /\ call.op = "delete"
  /\ "embeddingError" \in DOMAIN call
  /\ response.op = "delete"
  /\ response.status = 200
  /\ response.body.storageCleared.processedDocuments
  /\ response.body.storageCleared.documentChunks
  /\ ~response.body.storageCleared.embeddings
  /\ JobsOf(processedDocuments, call.documentId) = {}
  /\ JobsOf(documentChunks, call.documentId) = {}
  /\ RecordsOf(vectors, call.documentId) # {}

FileNamesOf(chunks) == {chunks[i].source : i \in 1..Len(chunks)}

\* C16: in a chat answer built from retrieved chunks, sources lists the
\* fileName of every one of those chunks, each fileName once, and nothing
\* else (no score); relevantChunks is the number of chunks the answer was
\* built from.
C16_SourcesDeduplicated ==
  [][(call'.op = "chat" /\ response'.status = 200 /\ response'.body.answer.kind = "generated")
     => LET sources == response'.body.sources
            used == response'.body.answer.contextChunks
        IN /\ {sources[i].source : i \in 1..Len(sources)} = FileNamesOf(used)
           /\ \A i \in 1..Len(sources) : DOMAIN sources[i] = {"source"}
           /\ \A i, j \in 1..Len(sources) : sources[i].source = sources[j].source => i = j
           /\ response'.body.relevantChunks = Len(used)]_vars

\* C17: question classification is first-match in the order overview, list,
\* how, why, when/where, general -- the answer is the one built by the
\* earliest category whose keyword check the lower-cased question passes,
\* and by the general builder when it passes none.
C17_FirstMatchClassification ==
  response.op = "answer" =>
    LET q == Trim(ToLower(call.question))
        Has(w) == \E i \in 1..Len(q) : i + Len(w) - 1 <= Len(q) /\ SubSeq(q, i, i + Len(w) - 1) = w
        overview == \/ Has(<<"a", "b", "o", "u", "t">>) \/ Has(<<"o", "v", "e", "r", "v", "i", "e", "w">>)
                    \/ Has(<<"s", "u", "m", "m", "a", "r", "y">>)
                    \/ Has(<<"w", "h", "a", "t">>) /\ (Has(<<"d", "o", "c", "u", "m", "e", "n", "t">>)
                                                        \/ Has(<<"p", "r", "o", "j", "e", "c", "t">>))
        list == Has(<<"l", "i", "s", "t">>) \/ Has(<<"w", "h", "a", "t", " ", "a", "r", "e">>)
        how == Has(<<"h", "o", "w">>)
        why == Has(<<"w", "h", "y">>)
        whenWhere == Has(<<"w", "h", "e", "n">>) \/ Has(<<"w", "h", "e", "r", "e">>)
        expected == IF overview THEN "overview"
                    ELSE IF list THEN "list"
                    ELSE IF how THEN "how"
                    ELSE IF why THEN "why"
                    ELSE IF whenWhere THEN "whenWhere"
                    ELSE "general"
    IN /\ response.category = expected
       /\ response.answer
            = Trim(BuildResponse(expected, call.question, q, response.sentences))

C17_Witness ==
  /\ response.op = "answer"
  /\ Includes(call.question, <<"w", "h", "a", "t", " ", "a", "r", "e">>)
  /\ Includes(call.question, <<"w", "h", "y">>)
  /\ response.category = "list"
  /\ Len(response.sentences) > 3
  /\ response.answer # Trim(buildWhyResponse(response.sentences))

\* C18: when no sentence of the retrieved chunks passes the length filter,
\* the answer is the fixed fallback string, whatever the question's category.
C18_FallbackWithoutCandidates ==
  (/\ response.op = "answer"
   /\ Len(call.contextChunks) > 0
   /\ response.sentences = <<>>)
  => response.answer = FallbackText

\* the stage order of lines 406-491
StageLabels ==
  <<"Initializing...", "Extracting text...", "Text chunked", "Adding metadata...",
    "Generating embeddings...", "Storing vectors...", "Completed">>

StageRank(label) == CHOOSE n \in 1..Len(StageLabels) : StageLabels[n] = label

\* the label of documentId's Job does not go back in the stage order in this
\* step (Error may follow any label, and any label may follow Error);
\* with sameJobOnly, only when the Job before and after is the one created
\* by the same processing request (same startedAt)
LabelKeepsOrder(documentId, sameJobOnly) ==
  (/\ DocHas(processedDocuments, documentId)
   /\ DocHas(processedDocuments', documentId)
   /\ sameJobOnly
        => DocGet(processedDocuments, documentId).startedAt
             = DocGet(processedDocuments', documentId).startedAt)
  => LET before == DocGet(processedDocuments, documentId).progress
         after == DocGet(processedDocuments', documentId).progress
     IN \/ after = "Error"
        \/ before = "Error"
        \/ StageRank(before) <= StageRank(after)

\* a step that makes documentId's Job completed leaves a chunk list for it
\* and a vector record for every chunk of that list
CompletedOnlyAfterStoring(documentId) ==
  (/\ DocHas(processedDocuments', documentId)
   /\ DocGet(processedDocuments', documentId).status = "completed"
   /\ \/ ~DocHas(processedDocuments, documentId)
      \/ DocGet(processedDocuments, documentId) # DocGet(processedDocuments', documentId))
  => /\ DocGet(processedDocuments', documentId).progress = "Completed"
     /\ DocHas(documentChunks', documentId)
     /\ LET chunks == DocGet(documentChunks', documentId).chunks
        IN \A i \in 1..Len(chunks) :
             \E n \in RecordsOf(vectors', documentId) : vectors'[n].id = chunks[i].id

\* C21 as stated: for every documentId, the progress label never goes back
\* in the stage order from one state to the next (Error excepted), and a Job
\* becomes completed only once its vectors are stored.
C21_ProgressOrder ==
  [][\A documentId \in Docs :
       /\ LabelKeepsOrder(documentId, FALSE)
       /\ CompletedOnlyAfterStoring(documentId)]_vars

\* C21: within one Job (the Job created by one processing request), the
\* progress label never goes back in the stage order from one state to the
\* next (Error excepted), and a Job becomes completed only once its vectors
\* are stored.
C21_ProgressOrderWithinJob ==
  [][\A documentId \in Docs :
       /\ LabelKeepsOrder(documentId, TRUE)
       /\ CompletedOnlyAfterStoring(documentId)]_vars

C21_Witness ==
  /\ call.op = "status"
  /\ response.status = 200
  /\ response.body.document.progress = "Completed"
  /\ response.body.document.status = "completed"
  /\ DocHas(documentChunks, call.documentId)
  /\ RecordsOf(vectors, call.documentId) # {}
  /\ \E task \in tasks : task.documentId # call.documentId

\* C22: the candidate sentences of an answer are the sentences of the
\* retrieved chunks' texts, split by the chunker's sentence rule, that have
\* at least 20 characters, in order, cut to the first 15.
C22_CandidateSentences ==
  (response.op = "answer" /\ Len(call.contextChunks) > 0)
  => LET texts == [i \in 1..Len(call.contextChunks) |-> call.contextChunks[i].text]
         AtLeastTwenty(sentence) == Len(sentence) >= 20
     IN response.sentences
          = SliceTo(SelectSeq(splitIntoSentences(JoinSpace(texts)), AtLeastTwenty), 15)

\* C23: a chat request that gives maxChunks = k is answered from at most k
\* chunks (the store being queried with topK = k).
C23_MaxChunksBound ==
  (/\ call.op = "chat"
   /\ response.op = "chat"
   /\ response.status = 200
   /\ HasKey(call.body, "maxChunks"))
  => response.body.relevantChunks <= call.body.maxChunks

\* C24: in every reachable state, a documentId that has a chunk list or a
\* vector record also has a Job in the registry.
C24_ChunksOwnedByJob ==
  \A documentId \in Docs :
    (DocHas(documentChunks, documentId) \/ RecordsOf(vectors, documentId) # {})
    => DocHas(processedDocuments, documentId)

\* C25: terminal states are stable -- a Job with status completed or error
\* is unchanged by every step that is not a processing request or a delete
\* request for its documentId.
C25_TerminalStable ==
  [][\A documentId \in Docs :
       (/\ DocHas(processedDocuments, documentId)
        /\ DocGet(processedDocuments, documentId).status \in {"completed", "error"}
        /\ ~(call'.op \in {"process", "delete"} /\ call'.documentId = documentId))
       => /\ DocHas(processedDocuments', documentId)
          /\ DocGet(processedDocuments', documentId)
               = DocGet(processedDocuments, documentId)]_vars

TasksOf(documentId) == {task \in tasks : task.documentId = documentId}

\* C26: at most one background task runs for a documentId, and while the
\* Job of a documentId has status processing the running task is the one
\* started by the request that created that Job (task id = the Job's
\* startedAt).
C26_OneTaskPerDocument ==
  \A documentId \in Docs :
    /\ Cardinality(TasksOf(documentId)) <= 1
    /\ IsProcessing(processedDocuments, documentId)
         => \A task \in TasksOf(documentId) :
              task.id = DocGet(processedDocuments, documentId).startedAt

ChunkIdsOf(documentId) ==
  IF DocHas(documentChunks, documentId)
  THEN {DocGet(documentChunks, documentId).chunks[i].id :
          i \in 1..Len(DocGet(documentChunks, documentId).chunks)}
  ELSE {}

\* C27: whenever the Job of a documentId is completed and no background
\* task runs for it, the ids of its vector records are the ids of its chunk
\* list, and totalChunks and embeddingStats.vectorsStored are their number.
C27_VectorsMatchChunks ==
  \A documentId \in Docs :
    (/\ DocHas(processedDocuments, documentId)
     /\ DocGet(processedDocuments, documentId).status = "completed"
     /\ TasksOf(documentId) = {})
    => LET job == DocGet(processedDocuments, documentId)
           recordIds == {vectors[n].id : n \in RecordsOf(vectors, documentId)}
       IN /\ recordIds = ChunkIdsOf(documentId)
          /\ job.totalChunks = Cardinality(recordIds)
          /\ job.embeddingStats.vectorsStored = Cardinality(recordIds)

\* C28: every chunk a chat answer is built from is a vector record of a
\* document whose Job has status completed when the request is handled.
C28_OnlyCompletedDocuments ==
  (/\ call.op = "chat"
   /\ response.op = "chat"
   /\ response.status = 200
   /\ response.body.answer.kind = "generated")
  => LET used == response.body.answer.contextChunks
     IN \A i \in 1..Len(used) :
          \E n \in 1..Len(vectors) :
            /\ vectors[n].id = used[i].id
            /\ DocHas(processedDocuments, vectors[n].metadata.documentId)
            /\ DocGet(processedDocuments, vectors[n].metadata.documentId).status
                 = "completed"

\* C29: token budget -- when every sentence of the input has an estimated
\* token count of at most maxTokens, every chunk's tokenCount is at most
\* maxTokens.
C29_TokenBudget ==
  response.op = "chunkText" =>
    LET sentences == splitIntoSentences(call.text)
        cs == response.chunksWithMetadata
    IN (\A k \in 1..Len(sentences) : estimateTokens(sentences[k]) <= call.maxTokens)
       => \A i \in 1..Len(cs) : cs[i].tokenCount <= call.maxTokens

\* the documentId a step is about: that of the processing or delete request
\* handled, or of the background task that ended
StepDocument ==
  IF call'.op \in {"extractionDone", "extractionFailed"} THEN call'.task.documentId
  ELSE call'.documentId

\* C30: isolation between documents -- a processing request, the end of a
\* background task, or a delete request of document a changes no Job, no
\* chunk list and no vector record of another document.
C30_DocumentIsolation ==
  [][call'.op \in {"process", "extractionDone", "extractionFailed", "delete"}
     => /\ OtherEntries(processedDocuments', StepDocument)
             = OtherEntries(processedDocuments, StepDocument)
        /\ OtherEntries(documentChunks', StepDocument)
             = OtherEntries(documentChunks, StepDocument)
        /\ OtherRecords(vectors', StepDocument) = OtherRecords(vectors, StepDocument)]_vars

C30_Witness ==
  /\ call.op = "delete"
  /\ response.op = "delete"
  /\ response.body.storageCleared.processedDocuments
  /\ response.body.storageCleared.documentChunks
  /\ \E other \in Docs \ {call.documentId} :
       /\ DocHas(processedDocuments, other)
       /\ DocGet(processedDocuments, other).status = "completed"
       /\ DocHas(documentChunks, other)
       /\ RecordsOf(vectors, other) # {}
  /\ RecordsOf(vectors, call.documentId) = {}

====
